---- MODULE Spec2Model ----
(***************************************************************************)
(* Compliance Analysis Engine of sec-grc-case: the file-based Cache        *)
(* (src/src/utils/cache.py), the PR sampler and the per-PR evaluator       *)
(* (src/src/analyzers/pr_analyzer.py) and the earlier single-file analyzer *)
(* (src/pr_analyzer.py, src/check_github_control.py).                      *)
(*                                                                         *)
(* Time is counted in abstract clock units (datetime.utcnow() readings).   *)
(***************************************************************************)
EXTENDS Integers, Sequences, FiniteSets, TLC

\* ------------------------------------------------------------------ bounds
\* last clock reading of a behaviour
MaxTime == 3
\* number of non-empty pages the listing endpoint can serve (a listing is finite)
MaxPages == 2
\* number of sampler calls / evaluator calls / cache operations in a behaviour
MaxCalls == 2

\* longest list of reviews a pull request has
MaxReviews == 2

\* Cache.ttl (timedelta(hours=ttl_hours)), in clock units
TTL == 1
\* per_page of the listing request, scaled down from 100
PerPage == 2

\* get_date_range of check_github_control.py: timedelta(days=30)
ScriptDays == 30

PRs == {1, 2}
Repos == {"org/a", "org/b"}
Users == {"alice", "bob"}

VARIABLES
    now,          \* datetime.utcnow()
    files,        \* cache_dir: cache path -> file content (sequence of written chunks)
    last,         \* history: the last Cache operation and what it did
    wr,           \* concurrent Cache.set calls: writer -> position in set()
    rd,           \* history: what concurrent Cache.get calls returned
    pc,           \* position of the running call
    impl,         \* which sampler is running
    args,         \* arguments of the running call
    page,         \* page counter of the pagination loop
    merged_prs,   \* list accumulated by the pagination loop
    requested,    \* history: page numbers requested by the running call
    result,       \* return value of the finished call
    entry0,       \* history: the cache file of the call's key when the call started
    first,        \* history: the first finished sampler call
    calls,        \* number of calls started
    owner,        \* history: which analyzer stored each pr_analysis entry
    used,         \* history: inputs of the last evaluation
    run           \* state of analyze_compliance

vars == <<now, files, last, wr, rd, pc, impl, args, page, merged_prs, requested,
          result, entry0, first, calls, owner, used, run>>

\* ------------------------------------------------------------------ values
\* Python None
None == [some |-> FALSE]
Some(v) == [some |-> TRUE, v |-> v]

\* marker for a path with no file
Absent == <<[part |-> "absent"]>>

\* ------------------------------------------------------------------ Cache
\* Cache._get_cache_key / _get_cache_path: cache_dir / sha256(key).json.
\* The digest is modelled as collision-free: distinct keys, distinct paths.
_get_cache_path(key) == <<"cache", key, ".json">>

\* json.dump(cached, f, indent=2) reaches the file in more than one write for
\* an entry larger than the stream buffer: a head chunk and a tail chunk.
Serialize(e) == <<[entry |-> e, part |-> "head"], [entry |-> e, part |-> "tail"]>>

\* the file content is one whole serialised entry
WellFormed(content) ==
    /\ Len(content) = 2
    /\ content[1].part = "head"
    /\ content[2].part = "tail"
    /\ content[1].entry = content[2].entry

\* head of one entry followed by the tail of another: text that may still be
\* valid JSON (equal-sized serialisations), holding a value nobody stored
Mixture(content) ==
    /\ Len(content) = 2
    /\ content[1].part = "head"
    /\ content[2].part = "tail"
    /\ content[1].entry # content[2].entry

\* the value such text holds: the start of one list and the rest of the other
Mixed(d1, d2) == SubSeq(d1, 1, 1) \o SubSeq(d2, 2, Len(d2))

\* json.load(f): the entry, or "corrupt" (json.load / cached['timestamp'] raise)
Parse(content) ==
    IF WellFormed(content) THEN content[1].entry
    ELSE IF Mixture(content)
         THEN [timestamp |-> content[1].entry.timestamp,
               data |-> Mixed(content[1].entry.data, content[2].entry.data)]
         ELSE [timestamp |-> -1, data |-> "corrupt"]

Corrupt(content) == ~WellFormed(content) /\ ~Mixture(content)

Content(fs, key) ==
    IF _get_cache_path(key) \in DOMAIN fs THEN fs[_get_cache_path(key)] ELSE Absent

Expired_strict(ts, t) == t - ts >= TTL

\* cache.py:71  datetime.utcnow() - cached_time > self.ttl
Expired(ts, t) == t - ts > TTL

\* Cache.get with a readable store: None on no file, corrupt file or expired entry
CacheGet(fs, key, t) ==
    LET p == _get_cache_path(key) IN
    IF p \notin DOMAIN fs THEN None
    ELSE IF Corrupt(fs[p]) THEN None
    ELSE IF Expired(Parse(fs[p]).timestamp, t) THEN None
    ELSE Some(Parse(fs[p]).data)

\* the file system after a write of `content` to the key's path
Put(fs, key, content) ==
    [q \in DOMAIN fs \cup {_get_cache_path(key)} |->
        IF q = _get_cache_path(key) THEN content ELSE fs[q]]

\* Cache.set when every write succeeds
CacheSet(fs, key, value, t) ==
    Put(fs, key, Serialize([timestamp |-> t, data |-> value]))

\* cache_path.unlink()
Unlink(fs, paths) == [q \in DOMAIN fs \ paths |-> fs[q]]

\* ------------------------------------------------------------------ idle parts
\* values of the variables a specification does not use
NoOp == [op |-> "none", key |-> <<>>, failed |-> FALSE, raised |-> FALSE,
         result |-> None, before |-> Absent, changed |-> FALSE]
NoCall == [key |-> <<>>, result |-> <<>>, at |-> 0, call |-> 0, seen |-> FALSE]
NoUse == [repo |-> "none", number |-> 0, author |-> "none", reviews |-> <<>>,
          hit |-> FALSE]
\* the counters of the legacy analyzer's self.metrics
NoMetrics == [compliant_prs |-> 0, non_compliant_prs |-> 0, high_risk_prs |-> 0]

NoRun == [sample |-> <<>>, i |-> 0, analyses |-> <<>>, stats |-> 0,
          failed |-> FALSE, metrics |-> NoMetrics]

CacheIdle == last = NoOp
ConcIdle == wr = <<>> /\ rd = {}
CallIdle ==
    /\ pc = "idle" /\ impl = "none" /\ args = <<>> /\ page = 0
    /\ merged_prs = <<>> /\ requested = <<>> /\ result = None
    /\ entry0 = Absent /\ first = NoCall /\ calls = 0
EvalIdle == owner = <<>> /\ used = NoUse
RunIdle == run = NoRun

cacheOpVars == <<last>>
concVars == <<wr, rd>>
callVars == <<pc, impl, args, page, merged_prs, requested, result, entry0, first, calls>>
evalVars == <<owner, used>>
runVars == <<run>>

\* the clock advances
Tick ==
    /\ now < MaxTime
    /\ now' = now + 1

\* ------------------------------------------------------------------ Cache operations
\* keys and values the callers of this section pass
CacheKeys == {<<"merged_prs", "org/a", 1, 1>>, <<"merged_prs", "org/a", 2, 1>>}
CacheValues == {<<>>, <<1>>}

\* a Cache operation touches the cache directory only
CacheFrame == UNCHANGED <<now, concVars, callVars, evalVars, runVars>>

Done(op, key, failed, res, fs) ==
    [op |-> op, key |-> key, failed |-> failed, raised |-> FALSE, result |-> res,
     before |-> Content(files, key), changed |-> fs # files]

\* Cache.get(key): any exception (unreadable file, corrupt JSON) is caught
\* and answered with None; the file is opened for reading only
OpGet(key) ==
    \E readable \in BOOLEAN :
        /\ readable \/ _get_cache_path(key) \in DOMAIN files
        /\ last' = Done("get", key, ~readable,
                        IF readable THEN CacheGet(files, key, now) ELSE None, files)
        /\ UNCHANGED files
        /\ CacheFrame

\* Cache.set(key, value): open(cache_path, 'w') truncates the file, json.dump
\* writes it chunk by chunk; an exception at any point is caught and logged
OpSet(key, value) ==
    LET e == [timestamp |-> now, data |-> value] IN
    /\ CacheFrame
    /\ \/ /\ files' = CacheSet(files, key, value, now)
          /\ last' = Done("set", key, FALSE, None, files')
       \/ \* open() raises: nothing was touched
          /\ files' = files
          /\ last' = Done("set", key, TRUE, None, files')
       \/ \* a write raises after the file was truncated and k chunks were written
          \E k \in 0..1 :
              /\ files' = Put(files, key, SubSeq(Serialize(e), 1, k))
              /\ last' = Done("set", key, TRUE, None, files')

\* Cache.invalidate(key)
OpInvalidate(key) ==
    /\ CacheFrame
    /\ \/ /\ files' = Unlink(files, {_get_cache_path(key)})
          /\ last' = Done("invalidate", key, FALSE, None, files')
       \/ \* unlink() raises
          /\ _get_cache_path(key) \in DOMAIN files
          /\ files' = files
          /\ last' = Done("invalidate", key, TRUE, None, files')

\* Cache.clear(): unlinks the files of the directory one by one and stops at
\* the first unlink() that raises
OpClear ==
    \E gone \in SUBSET DOMAIN files :
        /\ files' = Unlink(files, gone)
        /\ last' = [Done("clear", <<>>, gone # DOMAIN files, None, files')
                       EXCEPT !.before = Absent]
        /\ CacheFrame

CacheTick ==
    /\ Tick
    /\ last' = NoOp
    /\ UNCHANGED <<files, concVars, callVars, evalVars, runVars>>

CacheInit ==
    /\ now = 0 /\ files = <<>>
    /\ CacheIdle /\ ConcIdle /\ CallIdle /\ EvalIdle /\ RunIdle

CacheNext ==
    \/ \E key \in CacheKeys : OpGet(key)
    \/ \E key \in CacheKeys, value \in CacheValues : OpSet(key, value)
    \/ \E key \in CacheKeys : OpInvalidate(key)
    \/ OpClear
    \/ CacheTick

SpecCache == CacheInit /\ [][CacheNext]_vars

\* C7: Cache.get returns the stored value exactly when a (whole) entry for
\* the key exists and now - write_timestamp <= TTL, a miss otherwise; the
\* read leaves the store as it was, and only set, invalidate and clear ever
\* change a stored entry.
C7_GetHonoursTTL ==
    /\ (last.op = "get" /\ ~last.failed) =>
          /\ Content(files, last.key) = last.before
          /\ IF /\ last.before # Absent
                /\ WellFormed(last.before)
                /\ now - last.before[1].entry.timestamp <= TTL
             THEN last.result = Some(last.before[1].entry.data)
             ELSE last.result = None
    /\ last.changed => last.op \in {"set", "invalidate", "clear"}

\* a read at age exactly TTL that returned the stored value
C7_Witness ==
    /\ last.op = "get" /\ ~last.failed
    /\ WellFormed(last.before)
    /\ now - last.before[1].entry.timestamp = TTL
    /\ last.result = Some(last.before[1].entry.data)

\* C8: no Cache operation raises to its caller; a read of a corrupt or
\* unreadable entry returns a miss; a failed set, invalidate or clear is a
\* no-op (the store is what it was before the call).
C8_FailedOpIsNoOp ==
    /\ ~last.raised
    /\ (last.op = "get" /\ (last.failed \/ Corrupt(last.before))) => last.result = None
    /\ (last.op \in {"set", "invalidate", "clear"} /\ last.failed) => ~last.changed

\* ------------------------------------------------------------------ concurrent get / set
\* Two callers run Cache.set on one key while a third runs Cache.get.
\* Each open(), each write() of a chunk and each read of the file is one step
\* of the operating system; nothing in cache.py locks the file or writes to
\* a temporary file first.
Writers == {1, 2}
SharedKey == <<"merged_prs", "org/a", 1, 1>>
Hole == [part |-> "hole"]
ConcValues == {<<1, 2>>, <<2, 1>>}

\* write(chunk) at file offset pos: overwrites, appends, or leaves a hole
WriteAt(content, pos, chunk) ==
    [i \in 1..(IF pos > Len(content) THEN pos ELSE Len(content)) |->
        IF i = pos THEN chunk
        ELSE IF i <= Len(content) THEN content[i] ELSE Hole]

ConcFrame == UNCHANGED <<now, cacheOpVars, callVars, evalVars, runVars>>

\* cache.py:93-96  the entry is built, with its timestamp, before open()
SetBegin(w, value) ==
    /\ wr[w].pc = "idle"
    /\ wr' = [wr EXCEPT ![w] = [pc |-> "open", pos |-> 1,
                                entry |-> [timestamp |-> now, data |-> value]]]
    /\ UNCHANGED <<files, rd>>
    /\ ConcFrame

\* cache.py:98  open(cache_path, 'w') truncates the file
SetOpen(w) ==
    /\ wr[w].pc = "open"
    /\ files' = Put(files, SharedKey, <<>>)
    /\ wr' = [wr EXCEPT ![w].pc = "write"]
    /\ UNCHANGED rd
    /\ ConcFrame

\* cache.py:99  json.dump: the next chunk goes to this writer's own offset
SetWrite(w) ==
    /\ wr[w].pc = "write"
    /\ files' = Put(files, SharedKey,
                    WriteAt(Content(files, SharedKey), wr[w].pos,
                            Serialize(wr[w].entry)[wr[w].pos]))
    /\ wr' = [wr EXCEPT ![w].pos = @ + 1,
                        ![w].pc = IF wr[w].pos = 2 THEN "done" ELSE "write"]
    /\ UNCHANGED rd
    /\ ConcFrame

\* Cache.get on the shared key; text mixed from two entries either fails to
\* parse (a miss) or parses as an entry
ConcGet ==
    /\ \E r \in {CacheGet(files, SharedKey, now)} \cup
                 (IF _get_cache_path(SharedKey) \in DOMAIN files
                     /\ Mixture(files[_get_cache_path(SharedKey)])
                  THEN {None} ELSE {}) :
           rd' = rd \cup {r}
    /\ UNCHANGED <<files, wr>>
    /\ ConcFrame

ConcInit ==
    /\ now = 0 /\ files = <<>>
    /\ wr = [w \in Writers |-> [pc |-> "idle", pos |-> 1,
                                entry |-> [timestamp |-> 0, data |-> <<>>]]]
    /\ rd = {}
    /\ CacheIdle /\ CallIdle /\ EvalIdle /\ RunIdle

ConcNext ==
    \/ \E w \in Writers, value \in ConcValues : SetBegin(w, value)
    \/ \E w \in Writers : SetOpen(w)
    \/ \E w \in Writers : SetWrite(w)
    \/ ConcGet

SpecConc == ConcInit /\ [][ConcNext]_vars

\* C9: under any interleaving of get and set on one key, a get returns a miss
\* or a value that was passed whole to some set, and once every set has
\* finished the stored entry is exactly the entry of one of them.
C9_EntriesWrittenAtomically ==
    /\ \A r \in rd :
          r = None \/ \E w \in Writers : wr[w].pc # "idle" /\ r = Some(wr[w].entry.data)
    /\ (\A w \in Writers : wr[w].pc = "done") =>
          \E w \in Writers : Content(files, SharedKey) = Serialize(wr[w].entry)

\* ------------------------------------------------------------------ the listing endpoint
\* The closed pull requests of the repository: when each was merged (None:
\* closed without a merge) and when it was last updated.
Listing ==
    (1 :> [merged_at |-> Some(0), updated_at |-> 2]) @@
    (2 :> [merged_at |-> None, updated_at |-> 0]) @@
    (3 :> [merged_at |-> Some(1), updated_at |-> 1])

\* sequences of distinct pull requests, at most n long
RECURSIVE Arrangements(_, _)
Arrangements(S, n) ==
    IF n = 0 THEN {<<>>}
    ELSE {<<>>} \cup {<<x>> \o rest : x \in S, rest \in Arrangements(S, n - 1)}

Distinct(q) == \A i, j \in 1..Len(q) : i # j => q[i] # q[j]

\* sort=updated, direction=desc
ByUpdateDesc(q) ==
    \A i \in 1..(Len(q) - 1) : Listing[q[i]].updated_at >= Listing[q[i + 1]].updated_at

\* What GET /repos/{repo}/pulls?state=closed&sort=updated&direction=desc&
\* per_page=PerPage&page=p may answer at time t: up to PerPage pull requests
\* that exist by then, and nothing past the end of the (finite) listing.
\* The listing may change between two requests.
ServedPages(p, t) ==
    IF p > MaxPages THEN {<<>>}
    ELSE {q \in Arrangements({n \in DOMAIN Listing : Listing[n].updated_at <= t}, PerPage) :
             Distinct(q) /\ ByUpdateDesc(q)}

\* ------------------------------------------------------------------ the samplers
Engine == "src/analyzers/pr_analyzer._get_merged_prs"
Legacy == "pr_analyzer.fetch_pull_requests"
Script == "check_github_control.get_merged_prs"

DaysSet == {1, 2}
MinSampleSet == {1, 3}
SamplerRepo == "org/a"

\* pr_analyzer.py:141  f"merged_prs_{self.repo}_{days}_{min_sample}"
MergedKey(repo, days, min_sample) == <<"merged_prs", repo, days, min_sample>>

\* `if cached:` on a list: None and the empty list are both false
TruthyList(c) == c.some /\ c.v # <<>>

\* pr_analyzer.py:172-180: skip unmerged entries, stop at the first entry
\* merged before the cutoff, keep the others
RECURSIVE FilterEngine(_, _)
FilterEngine(prs, cutoff) ==
    IF prs = <<>> THEN <<>>
    ELSE LET m == Listing[Head(prs)].merged_at IN
         IF ~m.some THEN FilterEngine(Tail(prs), cutoff)
         ELSE IF m.v < cutoff THEN <<>>
         ELSE <<Head(prs)>> \o FilterEngine(Tail(prs), cutoff)

\* src/pr_analyzer.py:152-156 and check_github_control.py:50-54: keep the
\* entries merged inside [start, end]
RECURSIVE FilterWindow(_, _, _)
FilterWindow(prs, start, end) ==
    IF prs = <<>> THEN <<>>
    ELSE LET m == Listing[Head(prs)].merged_at
             rest == FilterWindow(Tail(prs), start, end) IN
         IF m.some /\ start <= m.v /\ m.v <= end THEN <<Head(prs)>> \o rest ELSE rest

NextPage_same(p) == p

\* page += 1
NextPage(p) == p + 1

RaiseForStatus_cachesPartial(fs, key, partial, t) == CacheSet(fs, key, partial, t)

\* response.raise_for_status() raising leaves the loop and the function:
\* cache.set (line 188) is not reached
RaiseForStatus(fs, key, partial, t) == fs

SamplerKey == MergedKey(SamplerRepo, args.days, args.min_sample)

SamplerFrame == UNCHANGED <<cacheOpVars, concVars, evalVars, runVars>>

\* history of the first call that returned
Remember(res, days, min_sample) ==
    IF first.seen THEN first
    ELSE [key |-> MergedKey(SamplerRepo, days, min_sample), result |-> res,
          at |-> now, call |-> calls', seen |-> TRUE]

\* _get_merged_prs(days, min_sample), lines 141-149: a truthy cached value is
\* returned at once, anything else starts the pagination loop
EngineCall(days, min_sample) ==
    /\ pc # "fetching" /\ calls < MaxCalls
    /\ calls' = calls + 1
    /\ impl' = Engine
    /\ args' = [days |-> days, min_sample |-> min_sample, at |-> now]
    /\ entry0' = Content(files, MergedKey(SamplerRepo, days, min_sample))
    /\ requested' = <<>>
    /\ LET cached == CacheGet(files, MergedKey(SamplerRepo, days, min_sample), now) IN
       IF TruthyList(cached)
       THEN /\ pc' = "returned" /\ result' = cached
            /\ first' = Remember(cached.v, days, min_sample)
            /\ UNCHANGED <<page, merged_prs>>
       ELSE /\ pc' = "fetching" /\ result' = None
            /\ page' = 1 /\ merged_prs' = <<>>
            /\ UNCHANGED first
    /\ UNCHANGED <<now, files>>
    /\ SamplerFrame

\* fetch_pull_requests(days, min_sample_size) and get_merged_prs(repo): no cache
PlainCall(which, days, min_sample) ==
    /\ pc # "fetching" /\ calls < MaxCalls
    /\ calls' = calls + 1
    /\ impl' = which
    /\ args' = [days |-> days, min_sample |-> min_sample, at |-> now]
    /\ entry0' = Absent
    /\ requested' = <<>>
    /\ pc' = "fetching" /\ result' = None
    /\ page' = 1 /\ merged_prs' = <<>>
    /\ UNCHANGED <<now, files, first>>
    /\ SamplerFrame

LegacyCall(days, min_sample) == PlainCall(Legacy, days, min_sample)

\* the script's window is fixed and it has no minimum sample
ScriptCall == PlainCall(Script, ScriptDays, 0)

\* requests.get(...) / raise_for_status() of any page raises
FetchFails ==
    /\ pc = "fetching"
    /\ requested' = Append(requested, page)
    /\ pc' = "raised" /\ result' = None
    /\ files' = IF impl = Engine
                THEN RaiseForStatus(files, SamplerKey, merged_prs, now)
                ELSE files
    /\ UNCHANGED <<now, impl, args, page, merged_prs, entry0, first, calls>>
    /\ SamplerFrame

\* the loop is left: cache.set(cache_key, merged_prs); return merged_prs
EngineReturn(all) ==
    /\ pc' = "returned" /\ result' = Some(all)
    /\ merged_prs' = all
    /\ files' = CacheSet(files, SamplerKey, all, now)
    /\ first' = Remember(all, args.days, args.min_sample)
    /\ UNCHANGED page

PlainReturn(all) ==
    /\ pc' = "returned" /\ result' = Some(all)
    /\ merged_prs' = all
    /\ UNCHANGED <<files, first, page>>

Continue(all) ==
    /\ page' = NextPage(page)
    /\ merged_prs' = all
    /\ UNCHANGED <<pc, result, files, first>>

\* one iteration of the loop of _get_merged_prs, lines 151-185
EnginePage ==
    /\ pc = "fetching" /\ impl = Engine
    /\ requested' = Append(requested, page)
    /\ calls' = calls
    /\ \E prs \in ServedPages(page, now) :
          LET all == merged_prs \o FilterEngine(prs, now - args.days) IN
          IF prs = <<>> THEN EngineReturn(merged_prs)
          ELSE IF Len(all) >= args.min_sample \/ Len(prs) < PerPage
               THEN EngineReturn(all)
               ELSE Continue(all)
    /\ UNCHANGED <<now, impl, args, entry0>>
    /\ SamplerFrame

\* one iteration of the loop of fetch_pull_requests, src/pr_analyzer.py:135-166
LegacyPage ==
    /\ pc = "fetching" /\ impl = Legacy
    /\ requested' = Append(requested, page)
    /\ calls' = calls
    /\ \E prs \in ServedPages(page, now) :
          LET all == merged_prs \o FilterWindow(prs, args.at - args.days, args.at) IN
          IF prs = <<>> THEN PlainReturn(merged_prs)
          ELSE IF Len(all) >= args.min_sample THEN PlainReturn(all)
          ELSE IF Listing[prs[Len(prs)]].updated_at < args.at - args.days
               THEN PlainReturn(all)
               ELSE Continue(all)
    /\ UNCHANGED <<now, impl, args, entry0>>
    /\ SamplerFrame

\* one iteration of the loop of get_merged_prs, check_github_control.py:40-62
ScriptPage ==
    /\ pc = "fetching" /\ impl = Script
    /\ requested' = Append(requested, page)
    /\ calls' = calls
    /\ \E prs \in ServedPages(page, now) :
          LET all == merged_prs \o FilterWindow(prs, args.at - args.days, args.at) IN
          IF prs = <<>> THEN PlainReturn(merged_prs)
          ELSE IF Listing[prs[Len(prs)]].updated_at < args.at - args.days
               THEN PlainReturn(all)
               ELSE Continue(all)
    /\ UNCHANGED <<now, impl, args, entry0>>
    /\ SamplerFrame

\* time passes between calls (a call is short against a clock unit)
SamplerTick ==
    /\ pc # "fetching"
    /\ Tick
    /\ UNCHANGED <<files, callVars>>
    /\ SamplerFrame

SamplerInit ==
    /\ now = 0 /\ files = <<>>
    /\ CallIdle /\ CacheIdle /\ ConcIdle /\ EvalIdle /\ RunIdle

SamplerNext ==
    \/ \E days \in DaysSet, min_sample \in MinSampleSet : EngineCall(days, min_sample)
    \/ \E days \in DaysSet, min_sample \in MinSampleSet : LegacyCall(days, min_sample)
    \/ ScriptCall
    \/ FetchFails
    \/ EnginePage
    \/ LegacyPage
    \/ ScriptPage
    \/ SamplerTick

SpecSampler == SamplerInit /\ [][SamplerNext]_vars

\* The pagination loops on their own: a call of any sampler, with any
\* arguments and at any time, has just entered its loop (for _get_merged_prs:
\* after a cache miss), and every started iteration is carried out.
LoopInit ==
    /\ now \in 0..MaxTime /\ files = <<>>
    /\ pc = "fetching" /\ page = 1 /\ merged_prs = <<>> /\ requested = <<>>
    /\ result = None /\ entry0 = Absent /\ first = NoCall /\ calls = 1
    /\ \E which \in {Engine, Legacy, Script} :
          /\ impl = which
          /\ args \in IF which = Script
                      THEN {[days |-> ScriptDays, min_sample |-> 0, at |-> now]}
                      ELSE {[days |-> d, min_sample |-> m, at |-> now] :
                              d \in DaysSet, m \in MinSampleSet}
    /\ CacheIdle /\ ConcIdle /\ EvalIdle /\ RunIdle

LoopNext ==
    \/ FetchFails
    \/ EnginePage
    \/ LegacyPage
    \/ ScriptPage

SpecLoopFair == LoopInit /\ [][LoopNext]_vars /\ WF_vars(LoopNext)

\* the merge timestamp of pull request n lies in [start, end]
MergedWithin(n, start, end) ==
    /\ Listing[n].merged_at.some
    /\ start <= Listing[n].merged_at.v
    /\ Listing[n].merged_at.v <= end

\* C2: every pull request a sampler returns was merged inside
\* [now - windowDays, now], now being the time of the call, whatever the
\* pages served and whatever the cache held before the call.
C2_SampleInsideWindow ==
    (pc = "returned" /\ impl \in {Engine, Legacy}) =>
        \A i \in 1..Len(result.v) :
            MergedWithin(result.v[i], args.at - args.days, args.at)

\* C3: a second _get_merged_prs call with the arguments of the first, made
\* within the TTL of the first, issues no listing request and returns the
\* sequence the first call returned.
C3_SecondCallIsCacheHit ==
    (/\ first.seen /\ calls = first.call + 1
     /\ impl = Engine /\ SamplerKey = first.key
     /\ args.at - first.at <= TTL) =>
        /\ requested = <<>>
        /\ pc = "returned" /\ result = Some(first.result)

\* C4: the pagination loop of each sampler requests the pages 1, 2, 3, ...
\* each once and in this order, and every call that entered the loop leaves it.
C4_PaginationTerminates ==
    /\ [](\A i \in 1..Len(requested) : requested[i] = i)
    /\ ((pc = "fetching") ~> (pc \in {"returned", "raised"}))

\* a call that walked through every page of a listing with no pull request
\* to keep, up to the empty page that ends it
C4_Witness ==
    /\ pc = "returned" /\ result = Some(<<>>)
    /\ Len(requested) = MaxPages + 1

\* C5: when a page request of _get_merged_prs fails the call raises and the
\* cache entry of its key is what it was before the call, also when earlier
\* pages of the call succeeded.
C5_FailedFetchLeavesCache ==
    (pc = "raised" /\ impl = Engine) =>
        /\ result = None
        /\ Content(files, SamplerKey) = entry0

\* the second page request fails after the first page gave pull requests to keep
C5_Witness ==
    /\ pc = "raised" /\ impl = Engine
    /\ Len(requested) = 2 /\ merged_prs # <<>>

\* ------------------------------------------------------------------ floats
\* A Python float (IEEE-754 binary64) close to a number of tenths: the record
\* [n, k] is the number  n/10 + k/(10 * 2^56).  Every score of the code
\* analyzer is such a number with a small k, and k = 0 only where the decimal
\* is itself a double (0.0, 0.5, 1.0, ...).

\* 2^e modulo m
RECURSIVE PowMod(_, _)
PowMod(e, m) == IF e = 0 THEN 1 % m ELSE (2 * PowMod(e - 1, m)) % m

\* tenths >= b, for a binade boundary b/10 that is a double
AtLeast(n, k, b) == n > b \/ (n = b /\ k >= 0)

\* the doubles around n/10 are 2^(j-56) apart
Binade(n, k) ==
    IF AtLeast(n, k, 80) THEN 7
    ELSE IF AtLeast(n, k, 40) THEN 6
    ELSE IF AtLeast(n, k, 20) THEN 5
    ELSE IF AtLeast(n, k, 10) THEN 4
    ELSE IF AtLeast(n, k, 5) THEN 3
    ELSE IF n >= 3 THEN 2
    ELSE IF n >= 2 THEN 1
    ELSE 0

\* 2^56 modulo 20 * 2^j, for every binade j
Pow56 == [j \in 0..7 |-> PowMod(56, 20 * (2 ^ j))]

\* (n * 2^56 + k) modulo 2 * S, where S = 10 * 2^j is the distance of two
\* doubles of binade j in units of 1/(10 * 2^56)
Residue ==
    [n \in Nat, k \in Int, j \in 0..7 |->
        ((n % (20 * (2 ^ j))) * Pow56[j] + (k % (20 * (2 ^ j)))) % (20 * (2 ^ j))]

\* the double nearest to [n, k], given S and the residue r2: ties go to the
\* even significand
Nearest ==
    [n \in Nat, k \in Int, S \in Nat, r2 \in Nat |->
        IF r2 % S = 0 THEN [n |-> n, k |-> k]
        ELSE IF 2 * (r2 % S) < S THEN [n |-> n, k |-> k - (r2 % S)]
        ELSE IF 2 * (r2 % S) > S THEN [n |-> n, k |-> k - (r2 % S) + S]
        ELSE IF r2 >= S THEN [n |-> n, k |-> k - (r2 % S) + S]
        ELSE [n |-> n, k |-> k - (r2 % S)]]

\* round to nearest double
Round ==
    [n \in Nat, k \in Int |->
        IF n = 0 /\ k = 0 THEN [n |-> 0, k |-> 0]
        ELSE Nearest[n, k, 10 * (2 ^ Binade(n, k)), Residue[n, k, Binade(n, k)]]]

Float == [n : Nat, k : Int]

\* the float literal 0.n (n tenths)
Lit == [n \in Nat |-> Round[n, 0]]

\* x + y
FAdd == [x \in Float, y \in Float |-> Round[x.n + y.n, x.k + y.k]]

\* c * x for an int c
FMul == [c \in Nat, x \in Float |-> Round[c * x.n, c * x.k]]

\* x >= y
FGe == [x \in Float, y \in Float |-> x.n > y.n \/ (x.n = y.n /\ x.k >= y.k)]

\* min(x, y)
FMin == [x \in Float, y \in Float |-> IF FGe[x, y] THEN y ELSE x]

\* ------------------------------------------------------------------ float quotients
\* The quotient of a float by an int d, and what is computed from it: the
\* record [n, k, d] is the number  (n/10 + k/(10 * 2^56)) / d.

\* a * 2^e modulo m
RECURSIVE Shift(_, _, _)
Shift(a, e, m) == IF e = 0 THEN a % m ELSE Shift((2 * a) % m, e - 1, m)

\* the doubles around n/(10 * d) are 2^(j-56) apart (numbers below 1024)
BinadeQ ==
    [n \in Nat, k \in Int, d \in Nat |->
        LET above == {j \in 1..13 : AtLeast(8 * n, k, 5 * d * (2 ^ j))} IN
        IF above = {} THEN 0
        ELSE CHOOSE j \in above : \A i \in above : i <= j]

\* the double nearest to [n, k, d], whose neighbours are S apart in units of
\* 1/(10 * d * 2^56)
NearestQ ==
    [n \in Nat, k \in Int, d \in Nat, S \in Nat |->
        [n |-> n,
         k |-> Nearest[n, k, S, (Shift(n % (2 * S), 56, 2 * S) + (k % (2 * S)))
                                    % (2 * S)].k,
         d |-> d]]

\* round to nearest double
RoundQ ==
    [n \in Nat, k \in Int, d \in Nat |->
        IF n = 0 /\ k = 0 THEN [n |-> 0, k |-> 0, d |-> d]
        ELSE NearestQ[n, k, d, 10 * d * (2 ^ BinadeQ[n, k, d])]]

\* x / c for an int c > 0
FDiv == [x \in Float, c \in Nat |-> RoundQ[x.n, x.k, c]]

\* the int 0
Zero == [n |-> 0, k |-> 0, d |-> 1]

\* ------------------------------------------------------------------ the code analyzer
\* A diff text is modelled by its lines: how many lines of each kind it has
\* (the analyzer only counts and searches, so the order of the lines is not
\* kept).  The kinds, with a line of that kind:
\*   plain   "+x = 1"
\*   def     "+def run():"
\*   deep    "         x += 1"        (a context line indented by 8 or more)
\*   git     "diff --git a/src/m.py b/src/m.py"
\*   todo    "+# TODO"
\*   secret  "+password = load()"
\*   pem     "diff --git a/app.pem b/app.pem"
\*   star    "diff --git a/*.pem b/*.pem"      (a file named *.pem)
KindList == <<"plain", "def", "deep", "git", "todo", "secret", "pem", "star">>
LineKinds == {KindList[i] : i \in 1..Len(KindList)}

\* the empty string
EmptyDiff == [kind \in LineKinds |-> 0]

\* matches of r'(def|function|class)\s+\w+' in a line of the kind
DefMatches == [kind \in LineKinds |-> IF kind = "def" THEN 1 ELSE 0]

\* matches of r'^\s{8,}' (re.M)
DeepMatches == [kind \in LineKinds |-> IF kind = "deep" THEN 1 ELSE 0]

\* matches of r'diff --git'
GitMatches == [kind \in LineKinds |-> IF kind \in {"git", "pem", "star"} THEN 1 ELSE 0]

\* matches of r'^\+[^+]' (re.M)
AddedMatches == [kind \in LineKinds |-> IF kind \in {"plain", "def", "todo", "secret"} THEN 1 ELSE 0]

\* matches of r'^-[^-]' (re.M)
RemovedMatches == [kind \in LineKinds |-> 0]

\* the risk factors whose pattern is found in a line of the kind: 'password'
\* is a security word (HIGH_RISK_PATTERNS), TODO a temporary solution, and
\* "diff --git a/*.pem" (line 105, with the asterisk) is a substring of the
\* header of a file named *.pem only
RiskFactorsOf(kind) ==
    CASE kind = "secret" -> {"Contains security-related code"}
      [] kind = "todo" -> {"Contains temporary solutions/hacks"}
      [] kind = "star" -> {"Modifies .pem file"}
      [] OTHER -> {}

\* the sensitive patterns found in a line of the kind
SensitiveOf(kind) ==
    IF kind = "secret" THEN {"potential_secrets"} ELSE {}

\* sum over the kinds of  (lines of the kind) * (matches in one line)
SumOver(diff, matches) ==
    LET upto[i \in 0..Len(KindList)] ==
            IF i = 0 THEN 0
            ELSE upto[i - 1] + diff[KindList[i]] * matches[KindList[i]]
    IN  upto[Len(KindList)]

OneEach == [kind \in LineKinds |-> 1]

\* diff.count('\n'): every line ends with a newline
LineCount(diff) == SumOver(diff, OneEach)

Stepped_both(score, count, high, high_term, mid, mid_term) ==
    IF count > high THEN FAdd[FAdd[score, high_term], mid_term]
    ELSE IF count > mid THEN FAdd[score, mid_term]
    ELSE score

\* `if count > high: score += high_term  elif count > mid: score += mid_term`
Stepped(score, count, high, high_term, mid, mid_term) ==
    IF count > high THEN FAdd[score, high_term]
    ELSE IF count > mid THEN FAdd[score, mid_term]
    ELSE score

\* CodeAnalyzer._calculate_complexity
_calculate_complexity(diff) ==
    LET lines == LineCount(diff)
        functions == SumOver(diff, DefMatches)
        nesting == SumOver(diff, DeepMatches)
        s0 == Lit[0]
        s1 == Stepped(s0, lines, 500, Lit[4], 200, Lit[2])
        s2 == Stepped(s1, functions, 10, Lit[3], 5, Lit[2])
        s3 == Stepped(s2, nesting, 20, Lit[3], 10, Lit[2])
    IN  FMin[s3, Lit[10]]

\* CodeAnalyzer._identify_risk_factors (the factors, each at most once)
_identify_risk_factors(diff) ==
    UNION {RiskFactorsOf(kind) : kind \in {x \in LineKinds : diff[x] > 0}}

\* CodeAnalyzer._check_sensitive_patterns
_check_sensitive_patterns(diff) ==
    UNION {SensitiveOf(kind) : kind \in {x \in LineKinds : diff[x] > 0}}

\* CodeAnalyzer._calculate_stats
_calculate_stats(diff) ==
    [total_lines |-> LineCount(diff),
     added_lines |-> SumOver(diff, AddedMatches),
     removed_lines |-> SumOver(diff, RemovedMatches),
     files_changed |-> SumOver(diff, GitMatches),
     functions_changed |-> SumOver(diff, DefMatches)]

FilesTerm_heavier == Lit[3]

\* code_analyzer.py:165-166: many files add 0.2
FilesTerm == Lit[2]

\* `if cond: score += term`
AddIf(score, cond, term) == IF cond THEN FAdd[score, term] ELSE score

\* code_analyzer.py:169-176
LevelOf ==
    [risk_score \in Float |->
        IF FGe[risk_score, Lit[8]] THEN "critical"
        ELSE IF FGe[risk_score, Lit[6]] THEN "high"
        ELSE IF FGe[risk_score, Lit[3]] THEN "medium"
        ELSE "low"]

\* CodeAnalyzer._determine_risk_level
_determine_risk_level(results) ==
    LET r0 == Lit[0]
        r1 == FAdd[r0, results.complexity_score]
        r2 == FAdd[r1, FMul[Cardinality(results.risk_factors), Lit[1]]]
        r3 == FAdd[r2, FMul[Cardinality(results.sensitive_patterns), Lit[2]]]
        r4 == AddIf(r3, results.stats.total_lines > 500, Lit[2])
        risk_score == AddIf(r4, results.stats.files_changed > 10, FilesTerm)
    IN  LevelOf[risk_score]

\* the shape of the results dict before and after line 62
RiskLevels == {"low", "medium", "high", "critical"}
StatsDicts ==
    [total_lines : Nat, added_lines : Nat, removed_lines : Nat,
     files_changed : Nat, functions_changed : Nat]
ResultsDicts ==
    [complexity_score : Float,
     risk_factors : SUBSET UNION {RiskFactorsOf(kind) : kind \in LineKinds},
     sensitive_patterns : SUBSET UNION {SensitiveOf(kind) : kind \in LineKinds},
     stats : StatsDicts]
CodeAnalyses ==
    [complexity_score : Float,
     risk_factors : SUBSET UNION {RiskFactorsOf(kind) : kind \in LineKinds},
     sensitive_patterns : SUBSET UNION {SensitiveOf(kind) : kind \in LineKinds},
     stats : StatsDicts,
     risk_level : RiskLevels]

\* lines 54-59 of analyze_diff
Results ==
    [diff \in [LineKinds -> Nat] |->
        [complexity_score |-> _calculate_complexity(diff),
         risk_factors |-> _identify_risk_factors(diff),
         sensitive_patterns |-> _check_sensitive_patterns(diff),
         stats |-> _calculate_stats(diff)]]

\* line 62 of analyze_diff: results['risk_level'] = ...
WithRiskLevel ==
    [results \in ResultsDicts |->
        [complexity_score |-> results.complexity_score,
         risk_factors |-> results.risk_factors,
         sensitive_patterns |-> results.sensitive_patterns,
         stats |-> results.stats,
         risk_level |-> _determine_risk_level(results)]]

\* CodeAnalyzer.analyze_diff
analyze_diff(diff) == WithRiskLevel[Results[diff]]

\* ------------------------------------------------------------------ the evaluator
\* review['state'] as the reviews endpoint may spell it
ReviewStates == {"APPROVED", "Approved", "COMMENTED"}

\* str.lower()
Lower(state) ==
    CASE state = "APPROVED" -> "approved"
      [] state = "Approved" -> "approved"
      [] state = "COMMENTED" -> "commented"
      [] OTHER -> state

Reviews == [user : Users, state : ReviewStates]

RECURSIVE ListsUpTo(_, _)
ListsUpTo(S, n) ==
    IF n = 0 THEN {<<>>}
    ELSE {<<>>} \cup {<<x>> \o rest : x \in S, rest \in ListsUpTo(S, n - 1)}

\* what GET .../pulls/{number}/reviews may answer
ReviewLists == ListsUpTo(Reviews, MaxReviews)

\* what GET .../pulls/{number} with the diff media type answers: the diff of a
\* merged pull request no longer changes; one of them is empty
DiffOf(repo, number) ==
    IF repo = "org/a"
    THEN [kind \in LineKinds |-> IF kind \in {"git", "plain"} THEN 1 ELSE 0]
    ELSE EmptyDiff

\* a pull request number that exists in both repositories
SharedNumber == CHOOSE n \in PRs : TRUE

\* pr_analyzer.py:209  f"pr_analysis_{pr['number']}"  (self.repo is not part of it)
AnalysisKey(repo, number) == <<"pr_analysis", number>>

\* pr_analyzer.py:193  f"pr_diff_{self.repo}_{pr_number}"
DiffKey(repo, number) == <<"pr_diff", repo, number>>

\* `if cached:` on a str: None and "" are both false
TruthyStr(c) == c.some /\ c.v # EmptyDiff

\* `if cached:` on the analysis dict, which is never empty
TruthyDict(c) == c.some

\* lines 232-238: the reviewers other than the author
ReviewersOf(author, reviews) ==
    {reviews[i].user : i \in {j \in 1..Len(reviews) : reviews[j].user # author}}

ApprovedBy_anyone(author, reviews) ==
    \E i \in 1..Len(reviews) : Lower(reviews[i].state) = "approved"

\* lines 233-240: approved is set by an approving review of a non-author
ApprovedBy(author, reviews) ==
    \E i \in 1..Len(reviews) :
        reviews[i].user # author /\ Lower(reviews[i].state) = "approved"

\* lines 242-256: the analysis dict
AnalysisOf ==
    [compliant \in BOOLEAN, reviewers \in SUBSET Users,
     code_analysis \in CodeAnalyses |->
        [compliant |-> compliant,
         reviewers |-> reviewers,
         risk_level |-> code_analysis.risk_level,
         risk_factors |-> code_analysis.risk_factors,
         complexity_score |-> code_analysis.complexity_score,
         sensitive_patterns |-> code_analysis.sensitive_patterns,
         stats |-> code_analysis.stats]]

Analysis(author, reviews, diff) ==
    AnalysisOf[ApprovedBy(author, reviews)
                 /\ Cardinality(ReviewersOf(author, reviews)) > 0,
               ReviewersOf(author, reviews),
               analyze_diff(diff)]

\* _get_pr_diff(pr_number) on the store fs: the diff and the store after the
\* call, or ok = FALSE when the request raises
GetPrDiff(fs, repo, number) ==
    LET cached == CacheGet(fs, DiffKey(repo, number), now) IN
    IF TruthyStr(cached)
    THEN {[ok |-> TRUE, diff |-> cached.v, fs |-> fs]}
    ELSE {[ok |-> FALSE, diff |-> EmptyDiff, fs |-> fs]} \cup
         {[ok |-> TRUE, diff |-> DiffOf(repo, number),
           fs |-> CacheSet(fs, DiffKey(repo, number), DiffOf(repo, number), now)]}

EvalFrame == UNCHANGED <<now, cacheOpVars, concVars, runVars,
                         impl, args, page, merged_prs, requested, entry0, first, calls>>

Use(repo, number, author, reviews, hit) ==
    [repo |-> repo, number |-> number, author |-> author, reviews |-> reviews,
     hit |-> hit]

_analyze_pr_eager(fs, repo, number, author) ==
    LET cached == CacheGet(fs, AnalysisKey(repo, number), now) IN
    IF TruthyDict(cached)
    THEN {[kind |-> "hit", value |-> cached, fs |-> fs, reviews |-> <<>>]}
    ELSE {[kind |-> "raised", value |-> None, fs |-> fs, reviews |-> <<>>]}
         \cup
         {[kind |-> "raised", value |-> None, reviews |-> <<>>,
           fs |-> CacheSet(d.fs, AnalysisKey(repo, number),
                           Analysis(author, <<>>, d.diff), now)] :
            d \in {x \in GetPrDiff(fs, repo, number) : x.ok}}
         \cup
         {[kind |-> "ok",
           value |-> Some(Analysis(author, reviews, d.diff)),
           fs |-> CacheSet(d.fs, AnalysisKey(repo, number),
                           Analysis(author, reviews, d.diff), now),
           reviews |-> reviews] :
            d \in {x \in GetPrDiff(fs, repo, number) : x.ok},
            reviews \in ReviewLists}

\* _analyze_pr(pr) of the analyzer of repo on the store fs, for a pull request
\* with this number and author: every way the call can end. kind is "hit"
\* (lines 209-213, the cached analysis is returned as it is), "raised" (lines
\* 215-228, the request for the details, the diff or the reviews raises; the
\* diff may already be cached) or "ok" (lines 215-260, the analysis is built
\* from the fetched reviews and cached)
_analyze_pr(fs, repo, number, author) ==
    LET cached == CacheGet(fs, AnalysisKey(repo, number), now) IN
    IF TruthyDict(cached)
    THEN {[kind |-> "hit", value |-> cached, fs |-> fs, reviews |-> <<>>]}
    ELSE {[kind |-> "raised", value |-> None, fs |-> f, reviews |-> <<>>] :
            f \in {fs} \cup {d.fs : d \in GetPrDiff(fs, repo, number)}}
         \cup
         {[kind |-> "ok",
           value |-> Some(Analysis(author, reviews, d.diff)),
           fs |-> CacheSet(d.fs, AnalysisKey(repo, number),
                           Analysis(author, reviews, d.diff), now),
           reviews |-> reviews] :
            d \in {x \in GetPrDiff(fs, repo, number) : x.ok},
            reviews \in ReviewLists}

\* PullRequestAnalyzer(token, repo)._analyze_pr(pr)
AnalyzePr(repo, number, author) ==
    /\ \E o \in _analyze_pr(files, repo, number, author) :
          /\ pc' = IF o.kind = "raised" THEN "raised" ELSE "returned"
          /\ result' = o.value
          /\ files' = o.fs
          /\ used' = Use(repo, number, author, o.reviews, o.kind = "hit")
          /\ owner' = IF o.kind = "ok"
                      THEN [n \in DOMAIN owner \cup {number} |->
                              IF n = number THEN repo ELSE owner[n]]
                      ELSE owner
    /\ EvalFrame

\* two analyzers, one per repository, built with the default cache directory
EvalInit ==
    /\ now = 0 /\ files = <<>>
    /\ CallIdle /\ CacheIdle /\ ConcIdle /\ EvalIdle /\ RunIdle

EvalNext ==
    \E repo \in Repos, author \in Users : AnalyzePr(repo, SharedNumber, author)

SpecEval == EvalInit /\ [][EvalNext]_vars

\* C1: an evaluation computed by _analyze_pr from the reviews it fetched is
\* compliant exactly when a review by someone other than the author has the
\* state 'approved' in any spelling of case; self-approvals and an empty list
\* of reviews never make a pull request compliant.
C1_CompliantIffApprovedByOther ==
    (pc = "returned" /\ ~used.hit) =>
        (result.v.compliant <=>
            \E i \in 1..Len(used.reviews) :
                /\ used.reviews[i].user # used.author
                /\ used.reviews[i].state \in {"APPROVED", "Approved", "approved"})

\* the only approval comes from the author, next to a comment of a reviewer
C1_Witness ==
    /\ pc = "returned" /\ ~used.hit
    /\ \E i \in 1..Len(used.reviews) :
          used.reviews[i].user = used.author /\ used.reviews[i].state = "APPROVED"
    /\ \E i \in 1..Len(used.reviews) : used.reviews[i].user # used.author
    /\ ~result.v.compliant

\* C10: _analyze_pr returns a cached evaluation only if it was stored for the
\* same repository and the same pull request number.
C10_EvaluationKeyScopedToRepo ==
    (pc = "returned" /\ used.hit) =>
        /\ used.number \in DOMAIN owner
        /\ owner[used.number] = used.repo

\* ------------------------------------------------------------------ one pull request
\* Timestamps of reviews and commits are seconds after the creation of the
\* pull request (pr['created_at'] is second 0).
ReviewTimes == {300, 1500}
CommitLists == {<<>>, <<0>>, <<600>>, <<900>>}

\* a review as the legacy analyzer reads it: who, state, submitted_at, and
\* whether it has a body
TimedReviews ==
    [user : Users, state : ReviewStates, submitted_at : ReviewTimes, body : BOOLEAN]

\* self.quick_review_threshold, src/pr_analyzer.py:110
QuickReviewThreshold == 600

SequenceFactors_at_threshold(review, last_commit_date) ==
    (IF review.state = "APPROVED"
        /\ review.submitted_at - last_commit_date <= QuickReviewThreshold
     THEN <<"Quick approval">> ELSE <<>>)
    \o
    (IF review.submitted_at < last_commit_date
     THEN <<"Review before final commit">> ELSE <<>>)

\* src/pr_analyzer.py:190-204 for one review: the risk factors it adds
SequenceFactors(review, last_commit_date) ==
    (IF review.state = "APPROVED"
        /\ review.submitted_at - last_commit_date < QuickReviewThreshold
     THEN <<"Quick approval">> ELSE <<>>)
    \o
    (IF review.submitted_at < last_commit_date
     THEN <<"Review before final commit">> ELSE <<>>)

RECURSIVE AllSequenceFactors(_, _)
AllSequenceFactors(reviews, last_commit_date) ==
    IF reviews = <<>> THEN <<>>
    ELSE SequenceFactors(Head(reviews), last_commit_date)
         \o AllSequenceFactors(Tail(reviews), last_commit_date)

\* analyze_review_sequence(pr, reviews) when the commits are fetched
analyze_review_sequence(commits, reviews) ==
    LET risk_factors == IF commits = <<>> THEN <<>>
                        ELSE AllSequenceFactors(reviews, commits[Len(commits)])
    IN  [is_compliant |-> risk_factors = <<>>, risk_factors |-> risk_factors]

\* min() of a non-empty set of seconds
MinOf(S) == CHOOSE x \in S : \A y \in S : x <= y

\* ReviewMetrics(), src/pr_analyzer.py:51-62
DefaultMetrics ==
    [time_to_first_review |-> None, time_to_approval |-> None,
     review_comments |-> 0, risk_level |-> "low", risk_factors |-> <<>>]

\* calculate_review_metrics(pr, reviews).  The two times are kept in seconds;
\* the code divides them by 3600, so that `< 0.17` hours is `< 612` seconds
\* and a time of 0 is the falsy 0.0
calculate_review_metrics(commits, reviews) ==
    IF reviews = <<>> THEN DefaultMetrics
    ELSE
    LET review_times == {reviews[i].submitted_at : i \in 1..Len(reviews)}
        approval_times == {reviews[i].submitted_at :
                             i \in {j \in 1..Len(reviews) : reviews[j].state = "APPROVED"}}
        earliest == MinOf(review_times)
        sequence == analyze_review_sequence(commits, reviews)
        approval == IF approval_times = {} THEN None ELSE Some(MinOf(approval_times))
        comments == Cardinality({i \in 1..Len(reviews) : reviews[i].body})
    IN  [time_to_first_review |-> Some(earliest),
         time_to_approval |-> approval,
         review_comments |-> comments,
         risk_level |->
            IF ~sequence.is_compliant \/ ~approval.some THEN "high"
            ELSE IF earliest # 0 /\ earliest < 612 THEN "medium"
            ELSE IF comments = 0 THEN "medium"
            ELSE "low",
         risk_factors |-> sequence.risk_factors]

\* ------------------------------------------------------------------ a whole run
RunFrame == UNCHANGED <<cacheOpVars, concVars, evalVars>>

\* analyze_compliance(days, min_sample) of the engine starts with line 61
RunCallEngine(days, min_sample) ==
    /\ pc = "idle"
    /\ EngineCall(days, min_sample)

\* the legacy analyze_compliance starts with src/pr_analyzer.py:323
RunCallLegacy(days, min_sample) ==
    /\ pc = "idle"
    /\ LegacyCall(days, min_sample)

\* the sample is back: the accumulators of this run are set up (engine lines
\* 62-68; the legacy analyzer only sets total_prs and keeps self.metrics)
RunBegin ==
    /\ pc = "returned"
    /\ pc' = "analyzing"
    /\ run' = [sample |-> result.v, i |-> 0, analyses |-> <<>>, stats |-> 0,
               failed |-> FALSE, metrics |-> run.metrics]
    /\ result' = None
    /\ UNCHANGED <<now, files, impl, args, page, merged_prs, requested,
                   entry0, first, calls>>
    /\ RunFrame

Abort_skips(r) ==
    [pc |-> "analyzing",
     run |-> IF r.i < Len(r.sample)
             THEN [r EXCEPT !.failed = TRUE, !.i = @ + 1]
             ELSE [r EXCEPT !.failed = TRUE, !.stats = @ + 1]]

\* an exception of a fetch leaves analyze_compliance: no handler in the
\* engine, `except Exception: ... raise` in the legacy analyzer (lines 394-396)
Abort(r) == [pc |-> "raised", run |-> [r EXCEPT !.failed = TRUE]]

\* one iteration of `for pr in merged_prs`, lines 70-95
RunAnalyzeEngine ==
    /\ pc = "analyzing" /\ impl = Engine /\ run.i < Len(run.sample)
    /\ LET outs == {[kind |-> o.kind, value |-> o.value, fs |-> o.fs] :
                      o \in UNION {_analyze_pr(files, SamplerRepo,
                                               run.sample[run.i + 1], author) :
                                     author \in Users}} IN
       \E o \in outs :
          /\ files' = o.fs
          /\ IF o.kind = "raised"
             THEN pc' = Abort(run).pc /\ run' = Abort(run).run
             ELSE /\ pc' = pc
                  /\ run' = [run EXCEPT !.i = @ + 1,
                                        !.analyses = Append(@, o.value.v.compliant)]
    /\ UNCHANGED <<now, result, impl, args, page, merged_prs, requested,
                   entry0, first, calls>>
    /\ RunFrame

\* src/pr_analyzer.py:267-274: an approver other than the author is needed;
\* risky stands for review_metrics.risk_level == HIGH
LegacyStatus(author, reviews, risky) ==
    LET approvers == {reviews[i].user :
                        i \in {j \in 1..Len(reviews) : reviews[j].state = "APPROVED"}} IN
    IF ~(\E a \in approvers : a # author) THEN "non_compliant"
    ELSE IF risky THEN "high_risk"
    ELSE "compliant"

\* src/pr_analyzer.py:277-282
Count(metrics, status) ==
    CASE status = "compliant" -> [metrics EXCEPT !.compliant_prs = @ + 1]
      [] status = "high_risk" -> [metrics EXCEPT !.high_risk_prs = @ + 1]
      [] OTHER -> [metrics EXCEPT !.non_compliant_prs = @ + 1]

\* one iteration of `for pr in prs`, src/pr_analyzer.py:327-329: the reviews
\* are fetched (line 259) and, if there are any, the commits (line 183)
RunAnalyzeLegacy ==
    /\ pc = "analyzing" /\ impl = Legacy /\ run.i < Len(run.sample)
    /\ \/ pc' = Abort(run).pc /\ run' = Abort(run).run
       \/ \E status \in {LegacyStatus(author, reviews, risky) :
                            author \in Users, reviews \in ReviewLists,
                            risky \in BOOLEAN} :
             /\ pc' = pc
             /\ run' = [run EXCEPT !.i = @ + 1,
                                   !.analyses = Append(@, status = "compliant"),
                                   !.metrics = Count(@, status)]
    /\ UNCHANGED <<now, files, result, impl, args, page, merged_prs, requested,
                   entry0, first, calls>>
    /\ RunFrame

\* one iteration of the loop of _calculate_statistical_metrics, lines 271-288:
\* the reviews of the pull request are fetched once more
RunStats ==
    /\ pc = "analyzing" /\ impl = Engine
    /\ run.i = Len(run.sample) /\ run.stats < Len(run.sample)
    /\ \/ pc' = Abort(run).pc /\ run' = Abort(run).run
       \/ pc' = pc /\ run' = [run EXCEPT !.stats = @ + 1]
    /\ UNCHANGED <<now, files, result, impl, args, page, merged_prs, requested,
                   entry0, first, calls>>
    /\ RunFrame

\* how many of the analyses have this verdict
RECURSIVE CountOf(_, _)
CountOf(analyses, verdict) ==
    IF analyses = <<>> THEN 0
    ELSE (IF Head(analyses) = verdict THEN 1 ELSE 0) + CountOf(Tail(analyses), verdict)

\* results['summary'], lines 98-115, and result['summary'] of the legacy
\* analyzer, src/pr_analyzer.py:336-343
Summary(which, r) ==
    IF which = Engine
    THEN [total_prs |-> Len(r.sample),
          compliant_prs |-> CountOf(r.analyses, TRUE),
          non_compliant_prs |-> CountOf(r.analyses, FALSE)]
    ELSE [total_prs |-> Len(r.sample),
          compliant_prs |-> r.metrics.compliant_prs,
          non_compliant_prs |-> r.metrics.non_compliant_prs]

\* return results
RunReturn ==
    /\ pc = "analyzing"
    /\ run.i = Len(run.sample)
    /\ impl = Engine => run.stats = Len(run.sample)
    /\ pc' = "summarised"
    /\ result' = Some(Summary(impl, run))
    /\ UNCHANGED <<now, files, run, impl, args, page, merged_prs, requested,
                   entry0, first, calls>>
    /\ RunFrame

\* the cache directory is empty, or an earlier evaluation of one pull request
\* without reviews, made in the clock unit t, has left its entry
StoresAt(t) ==
    {<<>>} \cup
    {CacheSet(<<>>, AnalysisKey(SamplerRepo, n),
              Analysis(a, <<>>, DiffOf(SamplerRepo, n)), t) :
        n \in DOMAIN Listing, a \in Users}

\* one analyzer of each kind for SamplerRepo is run once, at any time of the
\* clock
RunInit ==
    /\ now \in 0..MaxTime /\ files \in StoresAt(now)
    /\ CallIdle /\ CacheIdle /\ ConcIdle /\ EvalIdle /\ RunIdle

RunNext ==
    \/ \E days \in DaysSet, min_sample \in MinSampleSet : RunCallEngine(days, min_sample)
    \/ \E days \in DaysSet, min_sample \in MinSampleSet : RunCallLegacy(days, min_sample)
    \/ FetchFails
    \/ EnginePage
    \/ LegacyPage
    \/ RunBegin
    \/ RunAnalyzeEngine
    \/ RunAnalyzeLegacy
    \/ RunStats
    \/ RunReturn

SpecRun == RunInit /\ [][RunNext]_vars

\* C6: a run of analyze_compliance that returns has analysed every pull
\* request of its sample (and fetched the reviews of each for the statistics)
\* and its summary counts all of them; a run in which a fetch failed (a page of
\* the listing, the details, the diff, the reviews, the commits) has raised,
\* has no result, and goes no further: only a new call follows.
C6_SummaryOfAllOrRaise ==
    /\ [](pc = "summarised" =>
            /\ ~run.failed
            /\ Len(run.analyses) = Len(run.sample)
            /\ impl = Engine => run.stats = Len(run.sample)
            /\ result.some /\ result.v.total_prs = Len(run.sample))
    /\ [](pc = "raised" => result = None)
    /\ [](run.failed => pc \in {"raised", "fetching", "returned"})
    /\ [][pc = "raised" => pc' \in {"raised", "fetching", "returned"}]_vars

\* the run has raised after it had analysed a part of a sample of two
C6_Witness ==
    /\ pc = "raised" /\ run.failed
    /\ Len(run.sample) = 2 /\ Len(run.analyses) = 1

\* ------------------------------------------------------------------ evaluations
\* analyze_pr_compliance(pr) of the legacy analyzer when its fetches succeed:
\* the PullRequestData it returns (src/pr_analyzer.py:263-301)
analyze_pr_compliance(author, commits, reviews) ==
    LET review_metrics == calculate_review_metrics(commits, reviews)
        approvers == {reviews[i].user :
                        i \in {j \in 1..Len(reviews) : reviews[j].state = "APPROVED"}}
    IN  [author |-> author,
         reviewers |-> approvers,
         status |-> LegacyStatus(author, reviews, review_metrics.risk_level = "high"),
         metrics |-> review_metrics]

\* the texts GET .../pulls/{number} may answer with the diff media type
Diffs ==
    {EmptyDiff,
     [kind \in LineKinds |-> IF kind \in {"git", "plain"} THEN 1 ELSE 0],
     [kind \in LineKinds |-> IF kind = "plain" THEN 600 ELSE 1]}

\* what one evaluation is given: the pull request and what the fetches answer
EngineInputs ==
    [impl : {Engine}, author : Users, reviews : ReviewLists, diff : Diffs]

LegacyInputs ==
    [impl : {Legacy}, author : Users, commits : CommitLists,
     reviews : ListsUpTo(TimedReviews, MaxReviews)]

PrFrame == UNCHANGED <<now, files, cacheOpVars, concVars, evalVars, runVars,
                       impl, args, page, merged_prs, requested, entry0, first, calls>>

\* the evaluation of the pull request by the analyzer args.impl, with an
\* empty cache in the engine
EvaluatePr ==
    /\ pc = "idle"
    /\ pc' = "returned"
    /\ result' = IF args.impl = Engine
                 THEN Some(Analysis(args.author, args.reviews, args.diff))
                 ELSE Some(analyze_pr_compliance(args.author, args.commits, args.reviews))
    /\ PrFrame

PrInit ==
    /\ now = 0 /\ files = <<>>
    /\ pc = "idle" /\ impl = "none" /\ page = 0
    /\ args \in EngineInputs \cup LegacyInputs
    /\ merged_prs = <<>> /\ requested = <<>> /\ result = None
    /\ entry0 = Absent /\ first = NoCall /\ calls = 0
    /\ CacheIdle /\ ConcIdle /\ EvalIdle /\ RunIdle

PrNext == EvaluatePr

SpecPr == PrInit /\ [][PrNext]_vars

\* no review of the pull request is an approval
NoApproval(reviews) ==
    \A i \in 1..Len(reviews) : Lower(reviews[i].state) # "approved"

\* the risk level an evaluation ends with
FinalRisk(evaluation) ==
    IF "risk_level" \in DOMAIN evaluation THEN evaluation.risk_level
    ELSE evaluation.metrics.risk_level

\* C11: an evaluated pull request without any approval (a pull request
\* without reviews included), or whose review-sequence check failed, has the
\* final risk level high or critical, whatever its diff.
C11_UnapprovedIsHighRisk ==
    (pc = "returned" /\
        (\/ NoApproval(args.reviews)
         \/ /\ args.impl = Legacy
            /\ ~analyze_review_sequence(args.commits, args.reviews).is_compliant))
    => FinalRisk(result.v) \in {"high", "critical"}

\* the bucket an evaluation is counted in: the legacy status (src/pr_analyzer.py
\* 277-282), the list the engine appends the pull request to (engine 82-95)
BucketOf(evaluation) ==
    IF "status" \in DOMAIN evaluation THEN evaluation.status
    ELSE IF evaluation.compliant THEN "compliant" ELSE "non_compliant"

\* C13: the bucket of an evaluated pull request is compliant if it is approved
\* by a non-author, otherwise high_risk if its risk level is high or critical,
\* otherwise non_compliant.
C13_BucketFollowsPolicy ==
    pc = "returned" =>
        BucketOf(result.v) =
            IF ApprovedBy(args.author, args.reviews) THEN "compliant"
            ELSE IF FinalRisk(result.v) \in {"high", "critical"} THEN "high_risk"
            ELSE "non_compliant"

\* ------------------------------------------------------------------ aggregation
\* analyze_compliance of both analyzers once the sample is fetched: the loop
\* over the sample and the results.  No request fails here.

\* the longest sample, and the most pull requests one legacy instance evaluates
MaxSample == 3

\* The merged pull requests a sample is made of.  created_at is second 0; all
\* timestamps are multiples of 360 s, a tenth of an hour.
PrKinds ==
    << [number |-> 0, author |-> "alice", merged_at |-> 3600, commits |-> <<0>>,
        reviews |-> <<[user |-> "bob", state |-> "APPROVED",
                       submitted_at |-> 1080, body |-> TRUE],
                      [user |-> "bob", state |-> "COMMENTED",
                       submitted_at |-> 1440, body |-> TRUE],
                      [user |-> "alice", state |-> "APPROVED",
                       submitted_at |-> 1800, body |-> TRUE]>>,
        diff |-> [kind \in LineKinds |-> IF kind \in {"git", "plain"} THEN 1 ELSE 0]],
       [number |-> 0, author |-> "alice", merged_at |-> 360, commits |-> <<0>>,
        reviews |-> <<>>,
        diff |-> EmptyDiff],
       [number |-> 0, author |-> "bob", merged_at |-> 720, commits |-> <<0>>,
        reviews |-> <<[user |-> "alice", state |-> "COMMENTED",
                       submitted_at |-> 360, body |-> TRUE]>>,
        diff |-> [kind \in LineKinds |-> IF kind = "plain" THEN 600 ELSE 1]],
       [number |-> 0, author |-> "bob", merged_at |-> 1080, commits |-> <<1440>>,
        reviews |-> <<[user |-> "alice", state |-> "APPROVED",
                       submitted_at |-> 720, body |-> FALSE]>>,
        diff |-> [kind \in LineKinds |-> IF kind \in {"git", "plain"} THEN 1 ELSE 0]] >>

\* a sample: pull requests with distinct numbers
Numbered(kinds) ==
    [i \in 1..Len(kinds) |-> [PrKinds[kinds[i]] EXCEPT !.number = i]]

Samples ==
    {Numbered(kinds) :
        kinds \in UNION {[1..len -> 1..Len(PrKinds)] : len \in 0..MaxSample}}

\* (t - created_at).total_seconds() / 3600 for a multiple of 360 s
Hours == [seconds \in Nat |-> Lit[seconds \div 360]]

\* sum(xs): 0 + xs[1] + xs[2] + ..., from the left
FSum(xs) ==
    LET upto[i \in 0..Len(xs)] ==
            IF i = 0 THEN Lit[0] ELSE FAdd[upto[i - 1], xs[i]]
    IN  upto[Len(xs)]

\* sorted(xs)
RECURSIVE Insert(_, _)
Insert(x, sorted) ==
    IF sorted = <<>> THEN <<x>>
    ELSE IF FGe[Head(sorted), x] THEN <<x>> \o sorted
    ELSE <<Head(sorted)>> \o Insert(x, Tail(sorted))

Sorted(xs) ==
    LET upto[i \in 0..Len(xs)] ==
            IF i = 0 THEN <<>> ELSE Insert(xs[i], upto[i - 1])
    IN  upto[Len(xs)]

compliance_rate_as_fraction ==
    [compliant \in Nat, total \in Nat |->
        IF total > 0 THEN RoundQ[10 * compliant, 0, total] ELSE Zero]

\* (compliant / total * 100) if total > 0 else 0
compliance_rate ==
    [compliant \in Nat, total \in Nat |->
        IF total > 0
        THEN RoundQ[100 * RoundQ[10 * compliant, 0, total].n,
                    100 * RoundQ[10 * compliant, 0, total].k, total]
        ELSE Zero]

\* ---- the engine, src/src/analyzers/pr_analyzer.py

\* lines 65-68
NoLocals ==
    [compliant_prs |-> <<>>, non_compliant_prs |-> <<>>,
     review_patterns |-> <<>>,
     risk_distribution |-> [level \in RiskLevels |-> 0]]

\* a dict of counts, one more for every key of keys
Counted(patterns, keys) ==
    [key \in (DOMAIN patterns) \cup keys |->
        (IF key \in DOMAIN patterns THEN patterns[key] ELSE 0)
        + (IF key \in keys THEN 1 ELSE 0)]

Appended_first(list, entry) == <<entry>> \o list

\* list.append(entry), line 86
Appended(list, entry) == Append(list, entry)

\* lines 71-95: the body of the loop for pr and its analysis
Track(locals, pr, analysis) ==
    [compliant_prs |->
        IF analysis.compliant THEN Append(locals.compliant_prs, pr.number)
        ELSE locals.compliant_prs,
     non_compliant_prs |->
        IF analysis.compliant THEN locals.non_compliant_prs
        ELSE Appended(locals.non_compliant_prs,
                      [number |-> pr.number, author |-> pr.author,
                       risk_level |-> analysis.risk_level,
                       risk_factors |-> analysis.risk_factors,
                       stats |-> analysis.stats]),
     review_patterns |-> Counted(locals.review_patterns, analysis.reviewers),
     risk_distribution |->
        [locals.risk_distribution EXCEPT ![analysis.risk_level] = @ + 1]]

\* lines 267-288: the times of the pull requests that have them
ReviewTimesOf(prs) ==
    LET reviewed == SelectSeq(prs, LAMBDA pr : pr.reviews # <<>>) IN
    [i \in 1..Len(reviewed) |->
        Hours[MinOf({reviewed[i].reviews[j].submitted_at :
                        j \in 1..Len(reviewed[i].reviews)})]]

MergeTimesOf(prs) == [i \in 1..Len(prs) |-> Hours[prs[i].merged_at]]

MedianOf_zero(times) ==
    IF times = <<>> THEN Some(Lit[0]) ELSE Some(Sorted(times)[Len(times) \div 2 + 1])

\* lines 290-295 for one list of times
MedianOf(times) == IF times = <<>> THEN None ELSE Some(Sorted(times)[Len(times) \div 2 + 1])
AverageOf(times) == IF times = <<>> THEN None ELSE Some(FDiv[FSum(times), Len(times)])

\* _calculate_statistical_metrics(prs)
_calculate_statistical_metrics(prs) ==
    IF prs = <<>> THEN <<>>
    ELSE [median_review_time |-> MedianOf(ReviewTimesOf(prs)),
          median_merge_time |-> MedianOf(MergeTimesOf(prs)),
          avg_review_time |-> AverageOf(ReviewTimesOf(prs)),
          avg_merge_time |-> AverageOf(MergeTimesOf(prs))]

\* lines 98-119: the results
EngineResults(sample, locals) ==
    [summary |->
        [total_prs |-> Len(sample),
         compliance_rate |-> compliance_rate[Len(locals.compliant_prs), Len(sample)],
         compliant_prs |-> Len(locals.compliant_prs),
         non_compliant_prs |-> Len(locals.non_compliant_prs),
         high_risk_prs |-> locals.risk_distribution["high"]
                           + locals.risk_distribution["critical"],
         risk_distribution |-> locals.risk_distribution],
     review_patterns |-> locals.review_patterns,
     non_compliant_details |-> locals.non_compliant_prs,
     statistical_metrics |-> _calculate_statistical_metrics(sample)]

\* ---- the legacy analyzer, src/pr_analyzer.py

\* PullRequestMetrics(), lines 64-81
FreshMetrics ==
    [total_prs |-> 0, compliant_prs |-> 0, non_compliant_prs |-> 0,
     high_risk_prs |-> 0, unique_reviewers |-> {}, review_patterns |-> <<>>,
     risk_distribution |-> [level \in RiskLevels |-> 0],
     statistical_data |-> <<>>]

\* lines 276-289: what analyze_pr_compliance does to self.metrics
Updated(metrics, pr_data) ==
    [Count(metrics, pr_data.status) EXCEPT
        !.risk_distribution[pr_data.metrics.risk_level] = @ + 1,
        !.unique_reviewers = @ \cup pr_data.reviewers,
        !.review_patterns = Counted(@, pr_data.reviewers)]

\* lines 291-301: the PullRequestData of pr
PullRequestData(pr) ==
    [number |-> pr.number] @@ analyze_pr_compliance(pr.author, pr.commits, pr.reviews)

\* statistics.median(data) of a non-empty list
StatisticsMedian(data) ==
    IF Len(data) % 2 = 1 THEN Sorted(data)[Len(data) \div 2 + 1]
    ELSE FDiv[FAdd[Sorted(data)[Len(data) \div 2], Sorted(data)[Len(data) \div 2 + 1]], 2]

\* calculate_statistical_metrics(), lines 303-315.  statistics.stdev sums
\* exact fractions, so that it is a function of the data as a multiset: the
\* model keeps the sorted data in its place
calculate_statistical_metrics(analyzed_prs, statistical_data) ==
    LET approved == SelectSeq(analyzed_prs, LAMBDA pr : pr.metrics.time_to_approval.some)
        review_times == [i \in 1..Len(approved) |->
                            Hours[approved[i].metrics.time_to_approval.v]]
    IN  IF review_times = <<>> THEN statistical_data
        ELSE [median_review_time |-> StatisticsMedian(review_times),
              std_dev_review_time |->
                 IF Len(review_times) > 1 THEN [stdev_of |-> Sorted(review_times)]
                 ELSE Zero,
              min_review_time |-> Sorted(review_times)[1],
              max_review_time |-> Sorted(review_times)[Len(review_times)]]

\* lines 350-363: the entry of one pull request
DetailOf(pr_data) ==
    [number |-> pr_data.number, author |-> pr_data.author,
     reviewers |-> pr_data.reviewers,
     risk_level |-> pr_data.metrics.risk_level,
     risk_factors |-> pr_data.metrics.risk_factors,
     review_time_hours |-> pr_data.metrics.time_to_approval]

\* lines 333-371: the result, from self.metrics and self.analyzed_prs
LegacyResults(metrics, analyzed_prs) ==
    LET flagged == SelectSeq(analyzed_prs,
                       LAMBDA pr : pr.status \in {"non_compliant", "high_risk"}) IN
    [summary |->
        [total_prs |-> metrics.total_prs,
         compliant_prs |-> metrics.compliant_prs,
         non_compliant_prs |-> metrics.non_compliant_prs,
         high_risk_prs |-> metrics.high_risk_prs,
         compliance_rate |-> compliance_rate[metrics.compliant_prs, metrics.total_prs],
         risk_distribution |-> metrics.risk_distribution],
     statistical_metrics |-> metrics.statistical_data,
     review_patterns |-> metrics.review_patterns,
     non_compliant_details |-> [i \in 1..Len(flagged) |-> DetailOf(flagged[i])]]

\* ---- the calls

\* an analyzer instance that has not been called
NoAggregation ==
    [sample |-> <<>>, i |-> 0, locals |-> NoLocals,
     metrics |-> FreshMetrics, analyzed_prs |-> <<>>,
     before |-> [metrics |-> FreshMetrics, analyzed_prs |-> <<>>]]

AggFrame == UNCHANGED <<now, files, cacheOpVars, concVars, evalVars,
                        impl, args, page, merged_prs, requested, entry0, first>>

\* analyze_compliance is called and the sampler returns sample (engine 61-68,
\* legacy 323-324)
AggregateCall ==
    /\ pc \in {"idle", "returned"}
    /\ calls < MaxCalls
    /\ \E sample \in Samples :
          /\ impl = Legacy => Len(run.analyzed_prs) + Len(sample) <= MaxSample
          /\ run' = [run EXCEPT
                        !.sample = sample, !.i = 0, !.locals = NoLocals,
                        !.metrics.total_prs = IF impl = Legacy THEN Len(sample) ELSE @,
                        !.before = [metrics |-> run.metrics,
                                    analyzed_prs |-> run.analyzed_prs]]
    /\ pc' = "loop"
    /\ calls' = calls + 1
    /\ result' = None
    /\ AggFrame

\* one iteration of the loop (engine 70-95, legacy 327-329)
AggregateStep ==
    /\ pc = "loop"
    /\ run.i < Len(run.sample)
    /\ run' =
         IF impl = Engine
         THEN [run EXCEPT
                 !.i = @ + 1,
                 !.locals = Track(@, run.sample[run.i + 1],
                                  Analysis(run.sample[run.i + 1].author,
                                           run.sample[run.i + 1].reviews,
                                           run.sample[run.i + 1].diff))]
         ELSE [run EXCEPT
                 !.i = @ + 1,
                 !.metrics = Updated(@, PullRequestData(run.sample[run.i + 1])),
                 !.analyzed_prs = Append(@, PullRequestData(run.sample[run.i + 1]))]
    /\ UNCHANGED <<pc, calls, result>>
    /\ AggFrame

\* the loop is over: the statistics and the results (engine 98-137, legacy
\* 331-393)
AggregateReturn ==
    /\ pc = "loop"
    /\ run.i = Len(run.sample)
    /\ pc' = "returned"
    /\ IF impl = Engine
       THEN /\ result' = Some(EngineResults(run.sample, run.locals))
            /\ run' = run
       ELSE LET statistical_data ==
                    calculate_statistical_metrics(run.analyzed_prs,
                                                  run.metrics.statistical_data)
            IN  /\ run' = [run EXCEPT !.metrics.statistical_data = statistical_data]
                /\ result' = Some(LegacyResults(run'.metrics, run.analyzed_prs))
    /\ UNCHANGED calls
    /\ AggFrame

AggInit ==
    /\ now = 0 /\ files = <<>>
    /\ pc = "idle" /\ impl \in {Engine, Legacy} /\ args = <<>> /\ page = 0
    /\ merged_prs = <<>> /\ requested = <<>> /\ result = None
    /\ entry0 = Absent /\ first = NoCall /\ calls = 0
    /\ CacheIdle /\ ConcIdle /\ EvalIdle
    /\ run = NoAggregation

AggNext == AggregateCall \/ AggregateStep \/ AggregateReturn

SpecAgg == AggInit /\ [][AggNext]_vars

\* C12: every summary the legacy analyzer returns has
\* compliant_prs + non_compliant_prs + high_risk_prs = total_prs.
C12_LegacyBucketsSumToTotal ==
    (pc = "returned" /\ impl = Legacy) =>
        result.v.summary.compliant_prs + result.v.summary.non_compliant_prs
            + result.v.summary.high_risk_prs = result.v.summary.total_prs

\* the sampled pull requests the engine evaluates as not compliant
NonCompliantOf(sample) ==
    SelectSeq(sample, LAMBDA pr : ~Analysis(pr.author, pr.reviews, pr.diff).compliant)

\* C14: in every summary of the engine compliant_prs + non_compliant_prs =
\* total_prs, and non_compliant_details has one entry for each sampled pull
\* request that is not compliant, in the order of the sample, and no other.
C14_EngineCountsAndDetails ==
    (pc = "returned" /\ impl = Engine) =>
        /\ result.v.summary.compliant_prs + result.v.summary.non_compliant_prs
              = result.v.summary.total_prs
        /\ result.v.summary.total_prs = Len(run.sample)
        /\ Len(result.v.non_compliant_details) = Len(NonCompliantOf(run.sample))
        /\ \A i \in 1..Len(result.v.non_compliant_details) :
              /\ result.v.non_compliant_details[i].number
                    = NonCompliantOf(run.sample)[i].number
              /\ result.v.non_compliant_details[i].author
                    = NonCompliantOf(run.sample)[i].author

\* a summary of a compliant pull request between two that are not
C14_Witness ==
    /\ pc = "returned" /\ impl = Engine
    /\ Len(run.sample) = 3
    /\ result.v.summary.compliant_prs = 1
    /\ Len(result.v.non_compliant_details) = 2
    /\ result.v.non_compliant_details[1].number = 1
    /\ result.v.non_compliant_details[2].number = 3

\* the risk level the analyzer gives a sampled pull request
RiskOf(pr) ==
    IF impl = Engine THEN Analysis(pr.author, pr.reviews, pr.diff).risk_level
    ELSE calculate_review_metrics(pr.commits, pr.reviews).risk_level

\* C15: the risk histogram of every summary has the four keys low, medium,
\* high and critical, each bucket counts the evaluated pull requests of its
\* level, compliant or not, and the four buckets sum to total_prs.
C15_HistogramCountsEveryPr ==
    pc = "returned" =>
        /\ DOMAIN result.v.summary.risk_distribution = RiskLevels
        /\ \A level \in RiskLevels :
              result.v.summary.risk_distribution[level]
                 = Cardinality({i \in 1..Len(run.sample) : RiskOf(run.sample[i]) = level})
        /\ result.v.summary.risk_distribution["low"]
              + result.v.summary.risk_distribution["medium"]
              + result.v.summary.risk_distribution["high"]
              + result.v.summary.risk_distribution["critical"]
              = result.v.summary.total_prs

\* |k|
Abs(k) == IF k < 0 THEN 0 - k ELSE k

EngineSummary(sample) ==
    LET upto[i \in 0..Len(sample)] ==
            IF i = 0 THEN NoLocals
            ELSE Track(upto[i - 1], sample[i],
                       Analysis(sample[i].author, sample[i].reviews, sample[i].diff))
    IN  EngineResults(sample, upto[Len(sample)])

LegacySummary(instance, sample) ==
    LET upto[i \in 0..Len(sample)] ==
            IF i = 0
            THEN [metrics |-> [instance.metrics EXCEPT !.total_prs = Len(sample)],
                  analyzed_prs |-> instance.analyzed_prs]
            ELSE [metrics |-> Updated(upto[i - 1].metrics, PullRequestData(sample[i])),
                  analyzed_prs |-> Append(upto[i - 1].analyzed_prs,
                                          PullRequestData(sample[i]))]
        after == upto[Len(sample)]
    IN  LegacyResults(
            [after.metrics EXCEPT !.statistical_data =
                calculate_statistical_metrics(after.analyzed_prs, @)],
            after.analyzed_prs)

\* the sample in another order
Orders(n) ==
    {p \in [1..n -> 1..n] : \A i, j \in 1..n : p[i] = p[j] => i = j}

Permuted(sample, p) == [i \in 1..Len(sample) |-> sample[p[i]]]

\* the counts, the rate, the histogram, the per-reviewer counts and the
\* timing statistics of a result
OrderFree(results) ==
    [summary |-> results.summary,
     review_patterns |-> results.review_patterns,
     statistical_metrics |-> results.statistical_metrics]

\* C17: the counts, the compliance rate, the risk histogram, the per-reviewer
\* counts and the timing statistics of a summary are those of the summary of
\* every permutation of the sample.
C17_AggregationOrderIndependent ==
    pc = "returned" =>
        \A p \in Orders(Len(run.sample)) :
            OrderFree(result.v)
               = OrderFree(IF impl = Engine
                           THEN EngineSummary(Permuted(run.sample, p))
                           ELSE LegacySummary(run.before, Permuted(run.sample, p)))

\* ------------------------------------------------------------------ diffs
\* analyze_diff on diffs whose counts lie around the thresholds of the code.

\* how far a count lies from a threshold
Spread == 1

Around(thresholds) ==
    {0} \cup UNION {(t - Spread)..(t + Spread) : t \in thresholds}

\* the diffs analyzed: lines around 200 and 500, definitions around 5 and 10,
\* deeply indented lines around 10 and 20, files around 10
CodeDiffs ==
    {[kind \in LineKinds |->
         CASE kind = "plain" -> plain
           [] kind = "def" -> functions
           [] kind = "deep" -> nesting
           [] kind = "git" -> changed
           [] kind = "todo" -> todo
           [] kind = "secret" -> secret
           [] OTHER -> 0] :
        plain \in Around({200, 500}), functions \in Around({5, 10}),
        nesting \in Around({10, 20}), changed \in Around({10}),
        todo \in 0..1, secret \in 0..1}

CodeFrame == UNCHANGED <<now, files, cacheOpVars, concVars, evalVars, runVars,
                         impl, args, page, merged_prs, requested, entry0, first, calls>>

\* CodeAnalyzer().analyze_diff(args)
AnalyzeDiff ==
    /\ pc = "idle"
    /\ pc' = "returned"
    /\ result' = Some(analyze_diff(args))
    /\ CodeFrame

CodeInit ==
    /\ now = 0 /\ files = <<>>
    /\ pc = "idle" /\ impl = "none" /\ page = 0
    /\ args \in CodeDiffs
    /\ merged_prs = <<>> /\ requested = <<>> /\ result = None
    /\ entry0 = Absent /\ first = NoCall /\ calls = 0
    /\ CacheIdle /\ ConcIdle /\ EvalIdle /\ RunIdle

CodeNext == AnalyzeDiff

SpecCode == CodeInit /\ [][CodeNext]_vars

\* the three terms of the complexity score, in tenths
LineTerm(diff) ==
    IF LineCount(diff) > 500 THEN 4 ELSE IF LineCount(diff) > 200 THEN 2 ELSE 0

DefinitionTerm(diff) ==
    IF diff["def"] > 10 THEN 3 ELSE IF diff["def"] > 5 THEN 2 ELSE 0

IndentTerm(diff) ==
    IF diff["deep"] > 20 THEN 3 ELSE IF diff["deep"] > 10 THEN 2 ELSE 0

\* C18: the complexity score of a diff is in [0, 1] and is the sum of the
\* line term (0.4 above 500 lines, 0.2 above 200), the definition term (0.3
\* above 10 definitions, 0.2 above 5) and the deep-indentation term (0.3
\* above 20 lines, 0.2 above 10), capped at 1.0.
C18_ComplexityIsCappedSum ==
    pc = "returned" =>
        /\ FGe[result.v.complexity_score, Lit[0]]
        /\ FGe[Lit[10], result.v.complexity_score]
        /\ result.v.complexity_score
              = FMin[FAdd[FAdd[FAdd[Lit[0], Lit[LineTerm(args)]],
                               Lit[DefinitionTerm(args)]],
                          Lit[IndentTerm(args)]],
                     Lit[10]]

\* a diff of more than 500 lines, 6 to 10 definitions and more than 20 deep
\* lines has been scored
C18_Witness ==
    /\ pc = "returned"
    /\ LineTerm(args) = 4 /\ DefinitionTerm(args) = 2 /\ IndentTerm(args) = 3
    /\ result.v.complexity_score = FAdd[FAdd[Lit[4], Lit[2]], Lit[3]]

\* C19: a diff without risk factors and sensitive patterns, of at most 200
\* lines, 5 definitions and 10 deeply indented lines, has the risk level low,
\* however many files it changes.
C19_PlainSmallDiffIsLow ==
    (/\ pc = "returned"
     /\ result.v.risk_factors = {}
     /\ result.v.sensitive_patterns = {}
     /\ LineCount(args) <= 200
     /\ args["def"] <= 5
     /\ args["deep"] <= 10)
    => result.v.risk_level = "low"

\* such a diff that changes more than 10 files has been analyzed
C19_Witness ==
    /\ pc = "returned"
    /\ result.v.risk_factors = {}
    /\ result.v.sensitive_patterns = {}
    /\ LineCount(args) <= 200
    /\ args["def"] = 5
    /\ args["deep"] = 10
    /\ result.v.stats.files_changed > 10
    /\ result.v.risk_level = "low"

\* ------------------------------------------------------------------ the diff fetch
\* _get_pr_diff of one analyzer, called again and again while the clock runs.
\* args is the repository of the analyzer: "org/b" serves an empty diff.

DiffFrame == UNCHANGED <<cacheOpVars, concVars, owner, runVars,
                         impl, args, page, merged_prs, entry0>>

\* PullRequestAnalyzer(token, args)._get_pr_diff(number): lines 193-205.  The
\* request of line 200 is made unless line 196 finds a cached text
CallGetPrDiff(number) ==
    /\ calls < MaxCalls + 1
    /\ calls' = calls + 1
    /\ \E o \in GetPrDiff(files, args, number) :
          /\ pc' = IF o.ok THEN "returned" ELSE "raised"
          /\ result' = IF o.ok THEN Some(o.diff) ELSE None
          /\ files' = o.fs
          /\ first' = IF o.ok /\ ~first.seen
                      THEN [key |-> DiffKey(args, number), result |-> o.diff,
                            at |-> now, call |-> calls + 1, seen |-> TRUE]
                      ELSE first
    /\ used' = Use(args, number, "none", <<>>,
                   TruthyStr(CacheGet(files, DiffKey(args, number), now)))
    /\ requested' = IF TruthyStr(CacheGet(files, DiffKey(args, number), now))
                    THEN requested
                    ELSE Append(requested, <<"GET", args, number>>)
    /\ UNCHANGED now
    /\ DiffFrame

DiffTick ==
    /\ Tick
    /\ UNCHANGED <<files, pc, result, first, used, requested, calls>>
    /\ DiffFrame

DiffInit ==
    /\ now = 0 /\ files = <<>>
    /\ pc = "idle" /\ impl = "none" /\ page = 0
    /\ args \in Repos
    /\ merged_prs = <<>> /\ requested = <<>> /\ result = None
    /\ entry0 = Absent /\ first = NoCall /\ calls = 0
    /\ CacheIdle /\ ConcIdle /\ EvalIdle /\ RunIdle

DiffNext == DiffTick \/ \E number \in PRs : CallGetPrDiff(number)

SpecDiff == DiffInit /\ [][DiffNext]_vars

\* C20: once _get_pr_diff(n) has fetched the diff of a pull request, every
\* later _get_pr_diff(n) within the TTL returns the same text and makes no
\* request, whatever the text is.
C20_DiffServedFromCache ==
    (/\ first.seen
     /\ calls > first.call
     /\ first.key = DiffKey(used.repo, used.number)
     /\ now - first.at <= TTL)
    => /\ pc = "returned"
       /\ used.hit
       /\ result.v = first.result

\* ------------------------------------------------------------------ reviewers
\* the count a dict of counts holds for a key
CountFor(patterns, key) == IF key \in DOMAIN patterns THEN patterns[key] ELSE 0

\* the sampled pull requests that user reviewed without being their author
ReviewedBy(sample, user) ==
    {i \in 1..Len(sample) :
        /\ sample[i].author # user
        /\ \E j \in 1..Len(sample[i].reviews) : sample[i].reviews[j].user = user}

\* C21: in review_patterns of every summary the count of a reviewer is the
\* number of evaluated pull requests the reviewer reviewed at least once
\* without being their author.
C21_ReviewerCounts ==
    pc = "returned" =>
        \A user \in Users :
            CountFor(result.v.review_patterns, user)
               = Cardinality(ReviewedBy(run.sample, user))

\* ------------------------------------------------------------------ last write wins
\* what get answers for every key at time t
Lookup(fs, t) == [key \in CacheKeys |-> CacheGet(fs, key, t)]

\* C22: the Cache refines a last-write-wins map. Every call is a step of
\* the map: set(k, v) makes get(k) answer v and leaves the other keys alone,
\* invalidate(k) makes get(k) a miss and leaves the other keys alone, clear
\* makes every get a miss, get answers what the map holds and changes
\* nothing; a call that hit an I/O error is no step of the map at all; the
\* passing of time only turns answers into misses.
C22_LastWriteWins ==
    [][LET m == Lookup(files, now)
           after == Lookup(files', now')
           key == last'.key
       IN  CASE last'.op = "set" ->
                    IF last'.failed THEN after = m
                    ELSE \E value \in CacheValues :
                            /\ files' = CacheSet(files, key, value, now)
                            /\ after = [m EXCEPT ![key] = Some(value)]
              [] last'.op = "invalidate" ->
                    IF last'.failed THEN after = m
                    ELSE after = [m EXCEPT ![key] = None]
              [] last'.op = "clear" ->
                    IF last'.failed THEN after = m
                    ELSE after = [k \in CacheKeys |-> None]
              [] last'.op = "get" ->
                    /\ after = m
                    /\ ~last'.failed => last'.result = m[key]
              [] OTHER -> \A k \in CacheKeys : after[k] \in {m[k], None}]_vars

\* ------------------------------------------------------------------ leaving the loop
\* the accumulated sample after the page prs, by the filter of the sampler
Accumulated(prs) ==
    merged_prs \o (IF impl = Engine THEN FilterEngine(prs, now - args.days)
                   ELSE FilterWindow(prs, args.at - args.days, args.at))

\* the four reasons to stop after a page: enough matching pull requests, an
\* empty page, a last item updated before the window, a short page
StopAfter(prs, count) ==
    \/ count >= args.min_sample
    \/ prs = <<>>
    \/ prs # <<>> /\ Listing[prs[Len(prs)]].updated_at < args.at - args.days
    \/ Len(prs) < PerPage

\* C23: a sampler stops at the first page after which one of the four
\* reasons holds and requests the next page whenever none holds: every
\* answered page request of the engine or the legacy sampler is explained
\* by a page the listing could serve, after which the sampler returned
\* exactly when a reason to stop held and moved to the next page otherwise.
C23_StopsAtFirstReason ==
    [][(/\ pc = "fetching" /\ impl \in {Engine, Legacy}
        /\ requested' # requested /\ pc' # "raised") =>
          \E prs \in ServedPages(page, now) :
              /\ merged_prs' = IF prs = <<>> THEN merged_prs ELSE Accumulated(prs)
              /\ IF StopAfter(prs, Len(merged_prs'))
                 THEN pc' = "returned"
                 ELSE pc' = "fetching" /\ page' = page + 1]_vars

\* ------------------------------------------------------------------ the page filter
\* The `for pr in prs` loops of the two analyzers on one fetched page: the
\* page, the window and the analyzer are the inputs.
PageInputs ==
    UNION {{[prs |-> prs, days |-> days, at |-> at] :
               days \in DaysSet, prs \in ServedPages(1, at)} : at \in 0..MaxTime}

\* the for loop over one page, lines 172-180 (engine) and 152-156 (legacy)
FilterPage ==
    /\ pc = "idle"
    /\ pc' = "returned"
    /\ merged_prs' = IF impl = Engine
                     THEN FilterEngine(args.prs, args.at - args.days)
                     ELSE FilterWindow(args.prs, args.at - args.days, args.at)
    /\ UNCHANGED <<now, files, cacheOpVars, concVars, evalVars, runVars,
                   impl, args, page, requested, result, entry0, first, calls>>

FilterInit ==
    /\ files = <<>>
    /\ pc = "idle" /\ impl \in {Engine, Legacy} /\ page = 1
    /\ args \in PageInputs /\ now = args.at
    /\ merged_prs = <<>> /\ requested = <<>> /\ result = None
    /\ entry0 = Absent /\ first = NoCall /\ calls = 1
    /\ CacheIdle /\ ConcIdle /\ EvalIdle /\ RunIdle

FilterNext == FilterPage

SpecFilter == FilterInit /\ [][FilterNext]_vars

\* the positions of the page whose pull request was merged inside the window
InWindow(a) ==
    {i \in 1..Len(a.prs) : MergedWithin(a.prs[i], a.at - a.days, a.at)}

\* C24: the filter keeps exactly the entries of the page merged inside
\* [now - windowDays, now], wherever they sit on the page, in the order of
\* the listing.
C24_KeepsMergedInWindow ==
    pc = "returned" =>
        /\ \A i \in InWindow(args) :
               \E j \in 1..Len(merged_prs) : merged_prs[j] = args.prs[i]
        /\ Len(merged_prs) = Cardinality(InWindow(args))
        /\ \A j, k \in 1..Len(merged_prs) :
               j < k => \E a, b \in InWindow(args) :
                           /\ a < b
                           /\ args.prs[a] = merged_prs[j]
                           /\ args.prs[b] = merged_prs[k]

\* ------------------------------------------------------------------ risk levels
\* the risk score of an analysis in tenths, by the arithmetic of the reals
RiskTenths(a) ==
    a.complexity_score.n + Cardinality(a.risk_factors)
      + 2 * Cardinality(a.sensitive_patterns)
      + (IF a.stats.total_lines > 500 THEN 2 ELSE 0)
      + (IF a.stats.files_changed > 10 THEN 2 ELSE 0)

\* C25: the risk level is critical when complexity + 0.1 per risk factor
\* + 0.2 per sensitive pattern + 0.2 above 500 lines + 0.2 above 10 files is
\* at least 0.8, high from 0.6, medium from 0.3 and low below; a score of
\* exactly 0.3, 0.6 or 0.8 has the higher level.
C25_LevelByTenths ==
    pc = "returned" =>
        result.v.risk_level =
            (IF RiskTenths(result.v) >= 8 THEN "critical"
             ELSE IF RiskTenths(result.v) >= 6 THEN "high"
             ELSE IF RiskTenths(result.v) >= 3 THEN "medium"
             ELSE "low")

\* ------------------------------------------------------------------ the review sequence
\* the reviews that are approvals submitted less than the threshold after
\* the last commit, and the reviews submitted before it
QuickApprovals(commits, reviews) ==
    {i \in 1..Len(reviews) :
        /\ reviews[i].state = "APPROVED"
        /\ reviews[i].submitted_at - commits[Len(commits)] < QuickReviewThreshold}

EarlyReviews(commits, reviews) ==
    {i \in 1..Len(reviews) : reviews[i].submitted_at < commits[Len(commits)]}

Occurrences(q, x) == Cardinality({i \in 1..Len(q) : q[i] = x})

Reviewed(sample) == {i \in 1..Len(sample) : sample[i].reviews # <<>>}

\* creation to earliest review of pull request pr, in tenths of an hour
FirstReviewTenths(pr) ==
    MinOf({pr.reviews[j].submitted_at : j \in 1..Len(pr.reviews)}) \div 360

RECURSIVE TenthsOver(_, _)
TenthsOver(sample, indices) ==
    IF indices = {} THEN 0
    ELSE LET i == CHOOSE x \in indices : TRUE IN
         FirstReviewTenths(sample[i]) + TenthsOver(sample, indices \ {i})

\* C27: the review-time statistics of the engine are taken over the pull
\* requests with at least one review, each with the time from its creation
\* to its earliest review: the average divides their sum by their number
\* and the median is one of their times; when no pull request of the sample
\* has a review both are None, and for an empty sample there are no
\* statistics at all. No division by zero is made.
C27_ReviewTimesOverReviewed ==
    (pc = "returned" /\ impl = Engine) =>
        LET stats == result.v.statistical_metrics
            reviewed == Reviewed(run.sample)
        IN  IF run.sample = <<>> THEN stats = <<>>
            ELSE IF reviewed = {}
            THEN stats.median_review_time = None /\ stats.avg_review_time = None
            ELSE /\ stats.avg_review_time.some
                 /\ stats.avg_review_time.v.d = Cardinality(reviewed)
                 /\ stats.avg_review_time.v.n = TenthsOver(run.sample, reviewed)
                 /\ stats.median_review_time.some
                 /\ \E i \in reviewed :
                       stats.median_review_time.v.n = FirstReviewTenths(run.sample[i])

\* a sample of one pull request without reviews and two with reviews, whose
\* average is taken over the two
C27_Witness ==
    /\ pc = "returned" /\ impl = Engine
    /\ Len(run.sample) = 3
    /\ run.sample[1].reviews = <<>>
    /\ Cardinality(Reviewed(run.sample)) = 2
    /\ result.v.statistical_metrics.avg_review_time.v.d = 2
    /\ result.v.statistical_metrics.avg_merge_time.v.d = 3

\* ------------------------------------------------------------------ file types
\* _identify_risk_factors on diffs of at most one line of each kind
HeaderDiffs == [LineKinds -> 0..1]

\* CodeAnalyzer()._identify_risk_factors(args)
IdentifyRiskFactors ==
    /\ pc = "idle"
    /\ pc' = "returned"
    /\ result' = Some(_identify_risk_factors(args))
    /\ CodeFrame

RiskInit ==
    /\ now = 0 /\ files = <<>>
    /\ pc = "idle" /\ impl = "none" /\ page = 0
    /\ args \in HeaderDiffs
    /\ merged_prs = <<>> /\ requested = <<>> /\ result = None
    /\ entry0 = Absent /\ first = NoCall /\ calls = 0
    /\ CacheIdle /\ ConcIdle /\ EvalIdle /\ RunIdle

RiskNext == IdentifyRiskFactors

SpecRisk == RiskInit /\ [][RiskNext]_vars

\* C28: for a diff with a 'diff --git' header of a path that ends in a
\* high-risk name (here .pem), _identify_risk_factors returns a list that
\* contains 'Modifies .pem file'.
C28_HighRiskFileIsFlagged ==
    (pc = "returned" /\ (args["pem"] > 0 \/ args["star"] > 0)) =>
        "Modifies .pem file" \in result.v

\* ------------------------------------------------------------------ failed evaluations
\* the files of the store other than the diff entry of the pull request
Besides(fs, repo, number) ==
    [path \in DOMAIN fs \ {_get_cache_path(DiffKey(repo, number))} |-> fs[path]]

\* C29: _analyze_pr writes the evaluation entry only when the details, the
\* diff and the reviews were fetched and the evaluation is complete. A call
\* in which a fetch fails writes no evaluation entry: it leaves the store as
\* it was, but for the diff entry _get_pr_diff may have written, which is a
\* whole entry holding the fetched diff; a call that ends well leaves the
\* evaluation of the fetched reviews and diff.
C29_NoEntryFromFailedEvaluation ==
    [][/\ pc' = "raised" =>
            /\ Content(files', AnalysisKey(used'.repo, used'.number))
                 = Content(files, AnalysisKey(used'.repo, used'.number))
            /\ Besides(files', used'.repo, used'.number)
                 = Besides(files, used'.repo, used'.number)
            /\ \/ files' = files
               \/ CacheGet(files', DiffKey(used'.repo, used'.number), now)
                    = Some(DiffOf(used'.repo, used'.number))
       /\ (pc' = "returned" /\ ~used'.hit) =>
            CacheGet(files', AnalysisKey(used'.repo, used'.number), now) = result']_vars

\* the reviews request failed after the diff was fetched and cached: the
\* diff entry is there, an evaluation entry is not
C29_Witness ==
    /\ pc = "raised"
    /\ CacheGet(files, DiffKey(used.repo, used.number), now)
         = Some(DiffOf(used.repo, used.number))
    /\ Content(files, AnalysisKey(used.repo, used.number)) = Absent

\* ------------------------------------------------------------------ repeated calls
\* C30: after any sequence of analyze_compliance calls on one legacy
\* instance the summary of the latest call is about the pull requests of
\* that call only: the three buckets sum to total_prs, the compliance rate
\* lies in [0, 100], the histogram sums to total_prs, and
\* non_compliant_details lists no pull request of an earlier call.
C30_SummaryOfLatestCallOnly ==
    (pc = "returned" /\ impl = Legacy) =>
        LET summary == result.v.summary IN
        /\ summary.compliant_prs + summary.non_compliant_prs + summary.high_risk_prs
              = summary.total_prs
        /\ summary.total_prs = Len(run.sample)
        /\ 0 <= summary.compliant_prs /\ summary.compliant_prs <= summary.total_prs
        /\ summary.total_prs > 0 =>
              /\ summary.compliance_rate.n >= 0
              /\ summary.compliance_rate.n <= 10 * 100 * summary.compliance_rate.d
        /\ summary.risk_distribution["low"] + summary.risk_distribution["medium"]
              + summary.risk_distribution["high"] + summary.risk_distribution["critical"]
              = summary.total_prs
        /\ Len(result.v.non_compliant_details)
              = Cardinality({i \in 1..Len(run.sample) :
                    analyze_pr_compliance(run.sample[i].author, run.sample[i].commits,
                                          run.sample[i].reviews).status
                       \in {"non_compliant", "high_risk"}})

====
